---- MODULE Spec2Model ----
(***************************************************************************)
(* Model of the DOSE adaptive assessment core: the Mini-IPIP6 item bank,   *)
(* the grid-based Bayesian updater and the DOSEAlgorithm controller        *)
(* (initialize_session, select_next_item, process_response,                *)
(* get_next_action).                                                       *)
(*                                                                         *)
(* Real numbers (theta, SE, Fisher information, thresholds) are fixed      *)
(* point integers with six decimals: 0.65 is 650000.  alpha is kept with   *)
(* two decimals as in the item bank (1.07 is 107).  The numeric kernels    *)
(* (the quadrature of compute_posterior and fisher_information) are        *)
(* tabulated: GridPosterior and FisherInformation hold the values those    *)
(* functions return on every argument the bounded model can pass to them.  *)
(***************************************************************************)
EXTENDS Integers, Sequences, FiniteSets, TLC

VARIABLES
    init_args,            \* arguments given to DOSEAlgorithm.__init__
    se_threshold,         \* self.se_threshold
    max_items_per_trait,  \* self.max_items_per_trait
    state,                \* the DOSESessionState the host holds
    last_action,          \* dict returned by the most recent get_next_action
    last_call,            \* the most recent call on the algorithm and its outcome
    direct_calls,         \* process_response calls made outside the present/respond cycle
    objects,              \* the TraitState objects created so far, by object id
    sessions,             \* per session of a host serving several: its DOSESessionState,
                          \* trait_states holding object ids, and the action last returned
    alone,                \* per session: state and action when the same calls run on their own
    selection,            \* arguments and result of one item selection over given item_info
    irt_nan_items,        \* items on which log_likelihood of the IRT engine given to the
                          \* updater returns nan (none for the IRTEngine of irt_engine.py)
    evaluation,           \* one call of the classical scorer or of a theta-to-Likert
                          \* function: its arguments and, once made, its result
    participants,         \* the participants table: order assigned, conditions completed,
                          \* next_condition last reported
    helper_call,          \* the most recent call of a counterbalancing helper
    requests              \* the start, submit and respond requests received: how far
                          \* each handler has run and how it ended

session_vars == <<objects, sessions, alone>>

study_vars == <<evaluation, participants, helper_call, requests>>

vars == <<init_args, se_threshold, max_items_per_trait, state, last_action, last_call,
          direct_calls, objects, sessions, alone, selection, irt_nan_items,
          evaluation, participants, helper_call, requests>>

-----------------------------------------------------------------------------
(* Bounds of the model *)

\* Responses a host following the present/respond cycle may give.
Responses == {1, 4, 7}
\* The scale midpoint; answers other than it are counted against MaxVaried.
Neutral == (1 + 7) \div 2
\* At most this many non-midpoint answers in one session.
MaxVaried == 2
\* At most this many process_response calls outside the present/respond cycle.
MaxDirect == 1
\* Item ids and response values of those calls (25 is not in the bank,
\* 0 and 8 are outside the 1..7 scale).
DirectItems == {7, 14, 25}
DirectResponses == {0, 4, 8}
\* se_threshold arguments passed to the constructor (None: not passed).
None == -1
SeThresholdArgs == {None, 0, 500000, 680000, 10000000}
MaxItemsArgs == {None}
\* Sessions of a host serving several, and the answer each respondent gives
\* to every item.
SessionIds == {"A", "B"}
SessionResponse == [s \in SessionIds |-> IF s = "A" THEN Neutral ELSE 7]
\* item_info values of the selections over given information: 0..MaxInfo
MaxInfo == 2

\* items on which an injected engine's log_likelihood returns nan
FaultyItems == {1, 14}
\* Survey answers given to the scorer: the items of one trait take every
\* value of the scale, the other items one of RestResponses; in answer sets
\* with items left out the trait's items take the values of Responses and
\* the other items the midpoint.
Scale == 1..7
RestResponses == {7}
\* At most this many participants register.
MaxParticipants == 1
\* At most this many start, submit and respond requests are received.
MaxRequests == 4
\* Session types of the routers whose start handler is called.
StartedTypes == {"survey", "dose", "static"}
\* theta values given to the theta-to-Likert functions: -4.0 to 4.0 in
\* steps of 0.05
ThetaInputs == {50000 * k - 4000000 : k \in 0..160}

-----------------------------------------------------------------------------
(* config.py, bayesian_updater.py defaults *)

DOSE_SE_THRESHOLD == 650000
DOSE_MAX_ITEMS_PER_TRAIT == 4
prior_mean == 0
prior_sd == 1000000

-----------------------------------------------------------------------------
(* core/mini_ipip6_data.py *)

TRAITS == <<"extraversion", "agreeableness", "conscientiousness",
            "neuroticism", "openness", "honesty_humility">>

TraitSet == {TRAITS[i] : i \in 1..Len(TRAITS)}

TRAIT_ITEMS ==
    [t \in TraitSet |->
        CASE t = "extraversion" -> <<1, 7, 19, 23>>
          [] t = "agreeableness" -> <<2, 8, 14, 20>>
          [] t = "conscientiousness" -> <<3, 10, 11, 22>>
          [] t = "neuroticism" -> <<4, 15, 16, 17>>
          [] t = "openness" -> <<5, 9, 13, 21>>
          [] t = "honesty_humility" -> <<6, 12, 18, 24>>]

\* variant: the list without its last entry
REVERSE_SCORED_ITEMS_short == {6, 7, 8, 9, 11, 12, 13, 15, 17, 18, 19, 20, 21, 22}

REVERSE_SCORED_ITEMS == {6, 7, 8, 9, 11, 12, 13, 15, 17, 18, 19, 20, 21, 22, 24}

\* trait, reverse_scored, alpha and beta (two decimals) of each item
MINI_IPIP6_ITEMS ==
    [n \in 1..24 |->
        CASE n = 1 -> [trait |-> "extraversion", reverse_scored |-> FALSE, alpha |-> 107,
                      beta |-> <<-185, -104, -21, 89, 198, 276>>]
          [] n = 2 -> [trait |-> "agreeableness", reverse_scored |-> FALSE, alpha |-> 146,
                      beta |-> <<-319, -251, -186, -119, -28, 99>>]
          [] n = 3 -> [trait |-> "conscientiousness", reverse_scored |-> FALSE, alpha |-> 90,
                      beta |-> <<-339, -213, -118, -27, 57, 164>>]
          [] n = 4 -> [trait |-> "neuroticism", reverse_scored |-> FALSE, alpha |-> 113,
                      beta |-> <<-132, -23, 36, 104, 172, 253>>]
          [] n = 5 -> [trait |-> "openness", reverse_scored |-> FALSE, alpha |-> 54,
                      beta |-> <<-422, -268, -152, -21, 94, 247>>]
          [] n = 6 -> [trait |-> "honesty_humility", reverse_scored |-> TRUE, alpha |-> 91,
                      beta |-> <<-343, -267, -189, -110, -42, 71>>]
          [] n = 7 -> [trait |-> "extraversion", reverse_scored |-> TRUE, alpha |-> 84,
                      beta |-> <<-282, -167, -80, 10, 86, 191>>]
          [] n = 8 -> [trait |-> "agreeableness", reverse_scored |-> TRUE, alpha |-> 66,
                      beta |-> <<-374, -251, -159, -76, 22, 176>>]
          [] n = 9 -> [trait |-> "openness", reverse_scored |-> TRUE, alpha |-> 110,
                      beta |-> <<-270, -172, -100, -17, 47, 161>>]
          [] n = 10 -> [trait |-> "conscientiousness", reverse_scored |-> FALSE, alpha |-> 85,
                      beta |-> <<-349, -272, -202, -106, -20, 112>>]
          [] n = 11 -> [trait |-> "conscientiousness", reverse_scored |-> TRUE, alpha |-> 77,
                      beta |-> <<-421, -293, -205, -107, -18, 138>>]
          [] n = 12 -> [trait |-> "honesty_humility", reverse_scored |-> TRUE, alpha |-> 117,
                      beta |-> <<-232, -169, -108, -33, 17, 99>>]
          [] n = 13 -> [trait |-> "openness", reverse_scored |-> TRUE, alpha |-> 79,
                      beta |-> <<-345, -235, -156, -85, -11, 113>>]
          [] n = 14 -> [trait |-> "agreeableness", reverse_scored |-> FALSE, alpha |-> 112,
                      beta |-> <<-315, -236, -170, -92, 3, 137>>]
          [] n = 15 -> [trait |-> "neuroticism", reverse_scored |-> TRUE, alpha |-> 77,
                      beta |-> <<-224, -70, 38, 148, 257, 392>>]
          [] n = 16 -> [trait |-> "neuroticism", reverse_scored |-> FALSE, alpha |-> 90,
                      beta |-> <<-215, -76, 5, 89, 172, 280>>]
          [] n = 17 -> [trait |-> "neuroticism", reverse_scored |-> TRUE, alpha |-> 65,
                      beta |-> <<-282, -101, -19, 76, 180, 315>>]
          [] n = 18 -> [trait |-> "honesty_humility", reverse_scored |-> TRUE, alpha |-> 147,
                      beta |-> <<-192, -142, -97, -52, -16, 48>>]
          [] n = 19 -> [trait |-> "extraversion", reverse_scored |-> TRUE, alpha |-> 100,
                      beta |-> <<-251, -132, -49, 45, 123, 244>>]
          [] n = 20 -> [trait |-> "agreeableness", reverse_scored |-> TRUE, alpha |-> 81,
                      beta |-> <<-377, -269, -194, -119, -28, 125>>]
          [] n = 21 -> [trait |-> "openness", reverse_scored |-> TRUE, alpha |-> 124,
                      beta |-> <<-257, -171, -112, -29, 41, 143>>]
          [] n = 22 -> [trait |-> "conscientiousness", reverse_scored |-> TRUE, alpha |-> 94,
                      beta |-> <<-263, -173, -117, -64, -9, 111>>]
          [] n = 23 -> [trait |-> "extraversion", reverse_scored |-> FALSE, alpha |-> 92,
                      beta |-> <<-225, -127, -54, 24, 97, 196>>]
          [] n = 24 -> [trait |-> "honesty_humility", reverse_scored |-> TRUE, alpha |-> 116,
                      beta |-> <<-208, -130, -71, -12, 31, 110>>]]

-----------------------------------------------------------------------------
(* Tabulated numeric kernels *)

\* IRTEngine.fisher_information of an item's (alpha, beta) at theta:
\* FisherInformation[item][theta]
FisherInformation ==
    <<(   (-1759564 :> 776240)
       @@ (-1547227 :> 832772)
       @@ (-1493264 :> 845999)
       @@ (-1376994 :> 872786)
       @@ (-1374394 :> 873357)
       @@ (-1327984 :> 883351)
       @@ (-1132681 :> 921030)
       @@ (-1013542 :> 940494)
       @@ (-1011944 :> 940737)
       @@ (-940372 :> 951132)
       @@ (-911370 :> 955074)
       @@ (-856415 :> 962126)
       @@ (-846059 :> 963393)
       @@ (-789045 :> 970031)
       @@ (-773970 :> 971691)
       @@ (-768147 :> 972321)
       @@ (-695682 :> 979681)
       @@ (-694457 :> 979798)
       @@ (-689341 :> 980283)
       @@ (-602554 :> 987856)
       @@ (-585909 :> 989170)
       @@ (-584400 :> 989287)
       @@ (-559341 :> 991177)
       @@ (-555396 :> 991466)
       @@ (-521899 :> 993823)
       @@ (-519282 :> 994000)
       @@ (-502396 :> 995117)
       @@ (-499037 :> 995335)
       @@ (-494836 :> 995604)
       @@ (-487786 :> 996050)
       @@ (-480908 :> 996478)
       @@ (-452192 :> 998193)
       @@ (-431326 :> 999365)
       @@ (-420277 :> 999961)
       @@ (-408982 :> 1000553)
       @@ (-342396 :> 1003690)
       @@ (-329504 :> 1004230)
       @@ (-327786 :> 1004301)
       @@ (-293443 :> 1005629)
       @@ (-282989 :> 1006004)
       @@ (-144659 :> 1009760)
       @@ (-134258 :> 1009957)
       @@ (-131861 :> 1010000)
       @@ (-93586 :> 1010617)
       @@ (-90064 :> 1010666)
       @@ (-81850 :> 1010776)
       @@ (-73223 :> 1010884)
       @@ (-58803 :> 1011049)
       @@ (-43618 :> 1011201)
       @@ (-42898 :> 1011208)
       @@ (-41572 :> 1011220)
       @@ (-39458 :> 1011239)
       @@ (-28448 :> 1011331)
       @@ (-26864 :> 1011343)
       @@ (-7054 :> 1011478)
       @@ (-5296 :> 1011488)
       @@ (0 :> 1011517)
       @@ (13287 :> 1011578)
       @@ (17679 :> 1011595)
       @@ (19219 :> 1011601)
       @@ (25439 :> 1011621)
       @@ (28118 :> 1011628)
       @@ (42460 :> 1011659)
       @@ (43603 :> 1011660)
       @@ (78149 :> 1011658)
       @@ (79941 :> 1011655)
       @@ (80480 :> 1011654)
       @@ (81184 :> 1011653)
       @@ (81220 :> 1011653)
       @@ (93288 :> 1011626)
       @@ (107127 :> 1011580)
       @@ (121884 :> 1011514)
       @@ (125914 :> 1011493)
       @@ (158547 :> 1011278)
       @@ (185258 :> 1011042)
       @@ (248551 :> 1010277)
       @@ (302481 :> 1009411)
       @@ (314010 :> 1009201)
       @@ (327979 :> 1008935)
       @@ (350343 :> 1008485)
       @@ (366293 :> 1008145)
       @@ (379593 :> 1007850)
       @@ (390617 :> 1007597)
       @@ (398630 :> 1007409)
       @@ (400113 :> 1007374)
       @@ (400757 :> 1007358)
       @@ (408107 :> 1007181)
       @@ (417213 :> 1006958)
       @@ (445375 :> 1006236)
       @@ (458292 :> 1005891)
       @@ (481178 :> 1005255)
       @@ (483346 :> 1005193)
       @@ (502319 :> 1004642)
       @@ (518755 :> 1004148)
       @@ (520247 :> 1004103)
       @@ (533176 :> 1003704)
       @@ (537491 :> 1003568)
       @@ (565526 :> 1002665)
       @@ (588156 :> 1001906)
       @@ (600220 :> 1001490)
       @@ (607937 :> 1001220)
       @@ (615359 :> 1000958)
       @@ (635885 :> 1000217)
       @@ (660780 :> 999289)
       @@ (670434 :> 998920)
       @@ (673562 :> 998800)
       @@ (680731 :> 998522)
       @@ (717032 :> 997074)
       @@ (753815 :> 995538)
       @@ (819939 :> 992598)
       @@ (823536 :> 992431)
       @@ (855797 :> 990907)
       @@ (859111 :> 990747)
       @@ (861064 :> 990653)
       @@ (895414 :> 988958)
       @@ (900731 :> 988689)
       @@ (940454 :> 986636)
       @@ (1065285 :> 979581)
       @@ (1074143 :> 979044)
       @@ (1088762 :> 978147)
       @@ (1175256 :> 972547)
       @@ (1353976 :> 959230)
       @@ (1376726 :> 957347)
       @@ (1477798 :> 948413)
       @@ (1500813 :> 946241)
       @@ (1531077 :> 943304)
       @@ (1846468 :> 906471)),
      (   (-2368093 :> 1754547)
       @@ (-2259545 :> 1782350)
       @@ (-2196505 :> 1795312)
       @@ (-1991161 :> 1821814)
       @@ (-1975246 :> 1822894)
       @@ (-1933834 :> 1825069)
       @@ (-1861875 :> 1826711)
       @@ (-1812101 :> 1826300)
       @@ (-1708481 :> 1821553)
       @@ (-1658220 :> 1817433)
       @@ (-1618851 :> 1813412)
       @@ (-1593645 :> 1810482)
       @@ (-1570692 :> 1807578)
       @@ (-1537241 :> 1802951)
       @@ (-1506442 :> 1798286)
       @@ (-1493244 :> 1796172)
       @@ (-1460071 :> 1790557)
       @@ (-1387788 :> 1776894)
       @@ (-1358702 :> 1770867)
       @@ (-1358509 :> 1770826)
       @@ (-1343419 :> 1767584)
       @@ (-1317581 :> 1761855)
       @@ (-1302783 :> 1758476)
       @@ (-1292181 :> 1756012)
       @@ (-1274127 :> 1751734)
       @@ (-1267990 :> 1750256)
       @@ (-1227429 :> 1740206)
       @@ (-1224993 :> 1739587)
       @@ (-1152115 :> 1720293)
       @@ (-1142178 :> 1717551)
       @@ (-1137338 :> 1716206)
       @@ (-1127679 :> 1713504)
       @@ (-1070882 :> 1697151)
       @@ (-1065099 :> 1695442)
       @@ (-1047382 :> 1690161)
       @@ (-1044138 :> 1689187)
       @@ (-1042040 :> 1688555)
       @@ (-1039297 :> 1687728)
       @@ (-1021372 :> 1682281)
       @@ (-1001511 :> 1676167)
       @@ (-991155 :> 1672946)
       @@ (-988595 :> 1672146)
       @@ (-939235 :> 1656475)
       @@ (-936798 :> 1655690)
       @@ (-924876 :> 1651829)
       @@ (-915242 :> 1648692)
       @@ (-908186 :> 1646383)
       @@ (-903641 :> 1644891)
       @@ (-902195 :> 1644415)
       @@ (-869046 :> 1633419)
       @@ (-839290 :> 1623394)
       @@ (-825093 :> 1618562)
       @@ (-784691 :> 1604647)
       @@ (-728486 :> 1584913)
       @@ (-699497 :> 1574577)
       @@ (-698154 :> 1574096)
       @@ (-665773 :> 1562429)
       @@ (-665481 :> 1562323)
       @@ (-664240 :> 1561873)
       @@ (-660798 :> 1560626)
       @@ (-618021 :> 1545016)
       @@ (-614273 :> 1543639)
       @@ (-598332 :> 1537768)
       @@ (-598074 :> 1537673)
       @@ (-587982 :> 1533944)
       @@ (-587409 :> 1533732)
       @@ (-582626 :> 1531961)
       @@ (-573244 :> 1528481)
       @@ (-564684 :> 1525300)
       @@ (-537685 :> 1515223)
       @@ (-529941 :> 1512322)
       @@ (-529625 :> 1512203)
       @@ (-521237 :> 1509055)
       @@ (-493861 :> 1498742)
       @@ (-454684 :> 1483890)
       @@ (-430214 :> 1474562)
       @@ (-390179 :> 1459225)
       @@ (-378840 :> 1454866)
       @@ (-347349 :> 1442727)
       @@ (-311718 :> 1428941)
       @@ (-305614 :> 1426574)
       @@ (-288853 :> 1420069)
       @@ (-270478 :> 1412927)
       @@ (-261305 :> 1409359)
       @@ (-243858 :> 1402565)
       @@ (-239499 :> 1400866)
       @@ (-218418 :> 1392646)
       @@ (-156706 :> 1368544)
       @@ (-138405 :> 1361389)
       @@ (-129473 :> 1357897)
       @@ (-96672 :> 1345072)
       @@ (-88818 :> 1342001)
       @@ (-75886 :> 1336946)
       @@ (-43896 :> 1324446)
       @@ (0 :> 1307314)
       @@ (20072 :> 1299491)
       @@ (20573 :> 1299295)
       @@ (32672 :> 1294583)
       @@ (37583 :> 1292671)
       @@ (45869 :> 1289447)
       @@ (66627 :> 1281375)
       @@ (102849 :> 1267313)
       @@ (123719 :> 1259225)
       @@ (152983 :> 1247902)
       @@ (175249 :> 1239301)
       @@ (231759 :> 1217525)
       @@ (250732 :> 1210229)
       @@ (255214 :> 1208506)
       @@ (285041 :> 1197052)
       @@ (292483 :> 1194196)
       @@ (388921 :> 1157221)
       @@ (403749 :> 1151535)
       @@ (413492 :> 1147798)
       @@ (423957 :> 1143782)
       @@ (519324 :> 1107054)
       @@ (543040 :> 1097864)
       @@ (568617 :> 1087918)
       @@ (590215 :> 1079486)
       @@ (694430 :> 1038250)
       @@ (722340 :> 1027018)
       @@ (760206 :> 1011626)
       @@ (804714 :> 993287)
       @@ (823699 :> 985377)
       @@ (881790 :> 960826)
       @@ (1098133 :> 864329)
       @@ (1205519 :> 813453)
       @@ (1221949 :> 805513)
       @@ (1227276 :> 802931)
       @@ (1448727 :> 692870)),
      (   (-1925687 :> 738915)
       @@ (-1878289 :> 744110)
       @@ (-1857768 :> 746307)
       @@ (-1733503 :> 758928)
       @@ (-1671394 :> 764787)
       @@ (-1474168 :> 781336)
       @@ (-1455346 :> 782747)
       @@ (-1425044 :> 784957)
       @@ (-1355024 :> 789764)
       @@ (-1339803 :> 790753)
       @@ (-1318037 :> 792133)
       @@ (-1300181 :> 793234)
       @@ (-1285572 :> 794114)
       @@ (-1254031 :> 795949)
       @@ (-1167724 :> 800522)
       @@ (-1037252 :> 806155)
       @@ (-1035965 :> 806203)
       @@ (-989241 :> 807833)
       @@ (-982481 :> 808052)
       @@ (-957348 :> 808829)
       @@ (-916228 :> 809971)
       @@ (-904172 :> 810276)
       @@ (-903951 :> 810281)
       @@ (-902394 :> 810320)
       @@ (-889887 :> 810619)
       @@ (-885000 :> 810732)
       @@ (-878135 :> 810887)
       @@ (-876234 :> 810929)
       @@ (-862996 :> 811212)
       @@ (-844042 :> 811589)
       @@ (-838243 :> 811697)
       @@ (-829928 :> 811847)
       @@ (-785845 :> 812529)
       @@ (-781007 :> 812592)
       @@ (-778151 :> 812629)
       @@ (-770207 :> 812725)
       @@ (-764072 :> 812796)
       @@ (-749382 :> 812951)
       @@ (-746201 :> 812981)
       @@ (-709154 :> 813265)
       @@ (-648702 :> 813440)
       @@ (-604634 :> 813339)
       @@ (-596300 :> 813298)
       @@ (-575531 :> 813166)
       @@ (-552860 :> 812973)
       @@ (-551412 :> 812959)
       @@ (-529461 :> 812720)
       @@ (-499216 :> 812310)
       @@ (-464763 :> 811732)
       @@ (-459826 :> 811639)
       @@ (-448991 :> 811427)
       @@ (-431841 :> 811067)
       @@ (-427268 :> 810966)
       @@ (-425499 :> 810926)
       @@ (-400650 :> 810335)
       @@ (-391958 :> 810113)
       @@ (-382846 :> 809873)
       @@ (-347204 :> 808850)
       @@ (-323778 :> 808107)
       @@ (-279904 :> 806564)
       @@ (-246110 :> 805241)
       @@ (-244297 :> 805166)
       @@ (-237715 :> 804894)
       @@ (-236551 :> 804845)
       @@ (-209187 :> 803660)
       @@ (-204467 :> 803448)
       @@ (-186755 :> 802631)
       @@ (-147709 :> 800716)
       @@ (-115746 :> 799030)
       @@ (-41712 :> 794720)
       @@ (-38072 :> 794493)
       @@ (-17594 :> 793193)
       @@ (-14036 :> 792963)
       @@ (-12233 :> 792845)
       @@ (0 :> 792041)
       @@ (4238 :> 791759)
       @@ (27593 :> 790170)
       @@ (35316 :> 789632)
       @@ (52045 :> 788446)
       @@ (84273 :> 786080)
       @@ (113390 :> 783849)
       @@ (133928 :> 782223)
       @@ (135242 :> 782118)
       @@ (146206 :> 781230)
       @@ (174084 :> 778919)
       @@ (258481 :> 771435)
       @@ (271137 :> 770250)
       @@ (286786 :> 768762)
       @@ (294622 :> 768008)
       @@ (297305 :> 767748)
       @@ (311146 :> 766397)
       @@ (326581 :> 764867)
       @@ (328591 :> 764666)
       @@ (341449 :> 763370)
       @@ (351077 :> 762390)
       @@ (435172 :> 753427)
       @@ (570512 :> 737537)
       @@ (609228 :> 732664)
       @@ (618212 :> 731513)
       @@ (628237 :> 730220)
       @@ (893701 :> 692610)
       @@ (905505 :> 690792)
       @@ (912222 :> 689753)
       @@ (969175 :> 680788)
       @@ (1038132 :> 669578)
       @@ (1324177 :> 619273)),
      (   (-1538396 :> 732798)
       @@ (-1351553 :> 806972)
       @@ (-1205787 :> 864151)
       @@ (-1201464 :> 865832)
       @@ (-1123441 :> 895966)
       @@ (-950427 :> 961196)
       @@ (-904385 :> 978109)
       @@ (-831822 :> 1004320)
       @@ (-778585 :> 1023176)
       @@ (-718606 :> 1044007)
       @@ (-716269 :> 1044809)
       @@ (-677076 :> 1058158)
       @@ (-641325 :> 1070151)
       @@ (-566210 :> 1094749)
       @@ (-564040 :> 1095447)
       @@ (-541034 :> 1102801)
       @@ (-532399 :> 1105540)
       @@ (-518534 :> 1109913)
       @@ (-475134 :> 1123396)
       @@ (-467289 :> 1125800)
       @@ (-422310 :> 1139376)
       @@ (-388631 :> 1149307)
       @@ (-341716 :> 1162792)
       @@ (-336411 :> 1164291)
       @@ (-286205 :> 1178204)
       @@ (-283306 :> 1178992)
       @@ (-271985 :> 1182053)
       @@ (-261257 :> 1184931)
       @@ (-246134 :> 1188947)
       @@ (-216460 :> 1196689)
       @@ (-211730 :> 1197906)
       @@ (-140506 :> 1215650)
       @@ (-91312 :> 1227249)
       @@ (-57359 :> 1234931)
       @@ (-52575 :> 1235992)
       @@ (-49271 :> 1236721)
       @@ (-25847 :> 1241818)
       @@ (-23417 :> 1242339)
       @@ (-7904 :> 1245634)
       @@ (0 :> 1247290)
       @@ (4666 :> 1248261)
       @@ (10666 :> 1249501)
       @@ (35038 :> 1254449)
       @@ (47194 :> 1256862)
       @@ (105002 :> 1267830)
       @@ (114892 :> 1269621)
       @@ (134265 :> 1273058)
       @@ (198073 :> 1283684)
       @@ (208756 :> 1285358)
       @@ (215071 :> 1286333)
       @@ (233473 :> 1289115)
       @@ (233666 :> 1289143)
       @@ (239183 :> 1289959)
       @@ (286416 :> 1296606)
       @@ (324997 :> 1301582)
       @@ (327865 :> 1301936)
       @@ (352559 :> 1304886)
       @@ (359010 :> 1305628)
       @@ (359827 :> 1305721)
       @@ (361345 :> 1305894)
       @@ (364297 :> 1306228)
       @@ (366418 :> 1306467)
       @@ (367172 :> 1306551)
       @@ (375333 :> 1307455)
       @@ (463110 :> 1315992)
       @@ (480383 :> 1317415)
       @@ (488043 :> 1318018)
       @@ (513955 :> 1319934)
       @@ (515641 :> 1320052)
       @@ (519552 :> 1320323)
       @@ (530455 :> 1321054)
       @@ (616297 :> 1325607)
       @@ (625174 :> 1325956)
       @@ (648163 :> 1326752)
       @@ (659239 :> 1327081)
       @@ (721102 :> 1328257)
       @@ (722586 :> 1328271)
       @@ (725807 :> 1328300)
       @@ (738972 :> 1328388)
       @@ (746293 :> 1328414)
       @@ (766766 :> 1328405)
       @@ (788468 :> 1328262)
       @@ (805977 :> 1328045)
       @@ (813566 :> 1327923)
       @@ (825242 :> 1327703)
       @@ (842872 :> 1327294)
       @@ (876428 :> 1326265)
       @@ (893409 :> 1325618)
       @@ (924000 :> 1324240)
       @@ (926439 :> 1324119)
       @@ (958180 :> 1322377)
       @@ (1026332 :> 1317646)
       @@ (1034777 :> 1316966)
       @@ (1064868 :> 1314374)
       @@ (1127562 :> 1308134)
       @@ (1153112 :> 1305268)
       @@ (1164211 :> 1303964)
       @@ (1268782 :> 1289964)
       @@ (1286603 :> 1287270)
       @@ (1402720 :> 1267558)
       @@ (1436870 :> 1261056)
       @@ (1485746 :> 1251201)
       @@ (1564275 :> 1234034)
       @@ (1687348 :> 1203909)
       @@ (1755547 :> 1185576)
       @@ (1927246 :> 1134513)),
      (   (-2054299 :> 314171)
       @@ (-1972256 :> 315973)
       @@ (-1843811 :> 318546)
       @@ (-1762860 :> 320011)
       @@ (-1674671 :> 321467)
       @@ (-1607534 :> 322477)
       @@ (-1556666 :> 323186)
       @@ (-1536839 :> 323448)
       @@ (-1465711 :> 324329)
       @@ (-1331820 :> 325723)
       @@ (-1292805 :> 326065)
       @@ (-1262929 :> 326306)
       @@ (-1228820 :> 326560)
       @@ (-1210360 :> 326688)
       @@ (-1203898 :> 326732)
       @@ (-1184356 :> 326858)
       @@ (-1175428 :> 326913)
       @@ (-1122476 :> 327208)
       @@ (-1028533 :> 327597)
       @@ (-1022350 :> 327616)
       @@ (-976637 :> 327738)
       @@ (-946849 :> 327795)
       @@ (-942173 :> 327802)
       @@ (-902596 :> 327848)
       @@ (-901059 :> 327849)
       @@ (-900710 :> 327849)
       @@ (-883041 :> 327859)
       @@ (-852398 :> 327861)
       @@ (-797760 :> 327820)
       @@ (-778265 :> 327791)
       @@ (-767274 :> 327771)
       @@ (-756948 :> 327751)
       @@ (-713611 :> 327642)
       @@ (-700570 :> 327602)
       @@ (-686196 :> 327554)
       @@ (-680389 :> 327533)
       @@ (-674957 :> 327513)
       @@ (-641348 :> 327378)
       @@ (-600315 :> 327183)
       @@ (-572636 :> 327033)
       @@ (-557462 :> 326944)
       @@ (-533826 :> 326797)
       @@ (-532366 :> 326788)
       @@ (-529948 :> 326772)
       @@ (-503907 :> 326596)
       @@ (-473354 :> 326372)
       @@ (-471469 :> 326357)
       @@ (-448414 :> 326176)
       @@ (-431564 :> 326036)
       @@ (-408173 :> 325833)
       @@ (-391219 :> 325680)
       @@ (-346814 :> 325251)
       @@ (-297344 :> 324729)
       @@ (-283590 :> 324575)
       @@ (-279769 :> 324532)
       @@ (-274920 :> 324476)
       @@ (-266887 :> 324384)
       @@ (-265122 :> 324363)
       @@ (-263882 :> 324349)
       @@ (-222036 :> 323843)
       @@ (-211121 :> 323705)
       @@ (-192472 :> 323465)
       @@ (-164107 :> 323087)
       @@ (-140177 :> 322756)
       @@ (-127593 :> 322578)
       @@ (-104272 :> 322239)
       @@ (-80573 :> 321884)
       @@ (-66703 :> 321672)
       @@ (-43242 :> 321304)
       @@ (-14482 :> 320839)
       @@ (-4051 :> 320666)
       @@ (0 :> 320599)
       @@ (19528 :> 320269)
       @@ (56200 :> 319629)
       @@ (82067 :> 319163)
       @@ (97774 :> 318874)
       @@ (112147 :> 318605)
       @@ (114822 :> 318555)
       @@ (139449 :> 318084)
       @@ (208926 :> 316696)
       @@ (210711 :> 316659)
       @@ (235937 :> 316132)
       @@ (272460 :> 315348)
       @@ (287190 :> 315025)
       @@ (293842 :> 314878)
       @@ (296150 :> 314827)
       @@ (376289 :> 312987)
       @@ (422394 :> 311876)
       @@ (431599 :> 311650)
       @@ (433990 :> 311591)
       @@ (470745 :> 310670)
       @@ (570284 :> 308056)
       @@ (599836 :> 307247)
       @@ (668723 :> 305301)
       @@ (675371 :> 305109)
       @@ (706753 :> 304192)
       @@ (784842 :> 301837)
       @@ (803655 :> 301255)
       @@ (806122 :> 301178)
       @@ (835762 :> 300247)
       @@ (914835 :> 297692)
       @@ (963198 :> 296080)
       @@ (1171497 :> 288713)
       @@ (1292782 :> 284121)
       @@ (1350367 :> 281866)
       @@ (1508529 :> 275435)),
      (   (-2299033 :> 872380)
       @@ (-1985286 :> 899647)
       @@ (-1913853 :> 903828)
       @@ (-1709154 :> 911612)
       @@ (-1687332 :> 912075)
       @@ (-1630467 :> 912948)
       @@ (-1583407 :> 913310)
       @@ (-1393192 :> 911450)
       @@ (-1374523 :> 910983)
       @@ (-1363582 :> 910686)
       @@ (-1339213 :> 909961)
       @@ (-1287098 :> 908124)
       @@ (-1254102 :> 906759)
       @@ (-1165067 :> 902304)
       @@ (-1103106 :> 898543)
       @@ (-1087369 :> 897503)
       @@ (-1067945 :> 896172)
       @@ (-1062990 :> 895824)
       @@ (-1058165 :> 895482)
       @@ (-1034630 :> 893767)
       @@ (-990828 :> 890374)
       @@ (-989910 :> 890300)
       @@ (-966355 :> 888364)
       @@ (-957555 :> 887622)
       @@ (-936902 :> 885839)
       @@ (-927299 :> 884990)
       @@ (-888646 :> 881450)
       @@ (-858488 :> 878551)
       @@ (-857929 :> 878496)
       @@ (-852211 :> 877932)
       @@ (-841415 :> 876857)
       @@ (-831555 :> 875861)
       @@ (-805319 :> 873149)
       @@ (-781737 :> 870637)
       @@ (-767228 :> 869055)
       @@ (-762815 :> 868569)
       @@ (-745778 :> 866668)
       @@ (-717336 :> 863413)
       @@ (-702379 :> 861661)
       @@ (-641082 :> 854189)
       @@ (-609940 :> 850217)
       @@ (-586045 :> 847090)
       @@ (-563505 :> 844079)
       @@ (-552561 :> 842595)
       @@ (-546117 :> 841714)
       @@ (-545650 :> 841650)
       @@ (-540693 :> 840970)
       @@ (-530439 :> 839552)
       @@ (-508257 :> 836444)
       @@ (-447460 :> 827638)
       @@ (-433008 :> 825483)
       @@ (-421107 :> 823691)
       @@ (-389470 :> 818853)
       @@ (-387652 :> 818571)
       @@ (-372274 :> 816177)
       @@ (-369285 :> 815709)
       @@ (-368974 :> 815660)
       @@ (-363557 :> 814808)
       @@ (-345457 :> 811941)
       @@ (-339233 :> 810947)
       @@ (-330334 :> 809518)
       @@ (-238493 :> 794299)
       @@ (-233611 :> 793466)
       @@ (-226726 :> 792288)
       @@ (-217718 :> 790739)
       @@ (-180551 :> 784263)
       @@ (-179339 :> 784050)
       @@ (-135330 :> 776208)
       @@ (-104271 :> 770564)
       @@ (-94488 :> 768769)
       @@ (-70935 :> 764410)
       @@ (-66330 :> 763552)
       @@ (-66168 :> 763522)
       @@ (-58688 :> 762125)
       @@ (-58650 :> 762118)
       @@ (-2091 :> 751394)
       @@ (0 :> 750992)
       @@ (42103 :> 742828)
       @@ (96161 :> 732137)
       @@ (113856 :> 728588)
       @@ (122365 :> 726874)
       @@ (123628 :> 726619)
       @@ (130028 :> 725325)
       @@ (137361 :> 723838)
       @@ (165298 :> 718140)
       @@ (215029 :> 707859)
       @@ (236511 :> 703366)
       @@ (252333 :> 700037)
       @@ (255387 :> 699393)
       @@ (311354 :> 687479)
       @@ (336176 :> 682134)
       @@ (361949 :> 676546)
       @@ (383935 :> 671749)
       @@ (421762 :> 663436)
       @@ (425664 :> 662574)
       @@ (432036 :> 661165)
       @@ (520382 :> 641428)
       @@ (660404 :> 609477)
       @@ (663738 :> 608708)
       @@ (708840 :> 598270)
       @@ (736069 :> 591941)
       @@ (865568 :> 561623)
       @@ (901744 :> 553106)
       @@ (997537 :> 530503)
       @@ (1075705 :> 512048)
       @@ (1359644 :> 445632)),
      (   (-1759564 :> 666335)
       @@ (-1547227 :> 690953)
       @@ (-1493264 :> 696674)
       @@ (-1376994 :> 708232)
       @@ (-1374394 :> 708478)
       @@ (-1327984 :> 712781)
       @@ (-1132681 :> 728943)
       @@ (-1013542 :> 737211)
       @@ (-1011944 :> 737313)
       @@ (-940372 :> 741673)
       @@ (-911370 :> 743310)
       @@ (-856415 :> 746204)
       @@ (-846059 :> 746719)
       @@ (-789045 :> 749379)
       @@ (-773970 :> 750033)
       @@ (-768147 :> 750280)
       @@ (-695682 :> 753090)
       @@ (-694457 :> 753134)
       @@ (-689341 :> 753313)
       @@ (-602554 :> 755984)
       @@ (-585909 :> 756416)
       @@ (-584400 :> 756453)
       @@ (-559341 :> 757050)
       @@ (-555396 :> 757138)
       @@ (-521899 :> 757830)
       @@ (-519282 :> 757880)
       @@ (-502396 :> 758183)
       @@ (-499037 :> 758241)
       @@ (-494836 :> 758311)
       @@ (-487786 :> 758424)
       @@ (-480908 :> 758531)
       @@ (-452192 :> 758926)
       @@ (-431326 :> 759163)
       @@ (-420277 :> 759272)
       @@ (-408982 :> 759371)
       @@ (-342396 :> 759703)
       @@ (-329504 :> 759718)
       @@ (-327786 :> 759719)
       @@ (-293443 :> 759673)
       @@ (-282989 :> 759636)
       @@ (-144659 :> 758141)
       @@ (-134258 :> 757952)
       @@ (-131861 :> 757907)
       @@ (-93586 :> 757112)
       @@ (-90064 :> 757032)
       @@ (-81850 :> 756840)
       @@ (-73223 :> 756631)
       @@ (-58803 :> 756265)
       @@ (-43618 :> 755857)
       @@ (-42898 :> 755837)
       @@ (-41572 :> 755800)
       @@ (-39458 :> 755741)
       @@ (-28448 :> 755427)
       @@ (-26864 :> 755381)
       @@ (-7054 :> 754782)
       @@ (-5296 :> 754727)
       @@ (0 :> 754559)
       @@ (13287 :> 754126)
       @@ (17679 :> 753979)
       @@ (19219 :> 753927)
       @@ (25439 :> 753715)
       @@ (28118 :> 753622)
       @@ (42460 :> 753114)
       @@ (43603 :> 753073)
       @@ (78149 :> 751762)
       @@ (79941 :> 751691)
       @@ (80480 :> 751669)
       @@ (81184 :> 751641)
       @@ (81220 :> 751639)
       @@ (93288 :> 751150)
       @@ (107127 :> 750571)
       @@ (121884 :> 749932)
       @@ (125914 :> 749754)
       @@ (158547 :> 748252)
       @@ (185258 :> 746945)
       @@ (248551 :> 743565)
       @@ (302481 :> 740373)
       @@ (314010 :> 739654)
       @@ (327979 :> 738765)
       @@ (350343 :> 737301)
       @@ (366293 :> 736228)
       @@ (379593 :> 735314)
       @@ (390617 :> 734543)
       @@ (398630 :> 733975)
       @@ (400113 :> 733869)
       @@ (400757 :> 733823)
       @@ (408107 :> 733296)
       @@ (417213 :> 732635)
       @@ (445375 :> 730539)
       @@ (458292 :> 729552)
       @@ (481178 :> 727764)
       @@ (483346 :> 727592)
       @@ (502319 :> 726068)
       @@ (518755 :> 724719)
       @@ (520247 :> 724595)
       @@ (533176 :> 723515)
       @@ (537491 :> 723150)
       @@ (565526 :> 720740)
       @@ (588156 :> 718740)
       @@ (600220 :> 717654)
       @@ (607937 :> 716953)
       @@ (615359 :> 716272)
       @@ (635885 :> 714364)
       @@ (660780 :> 711997)
       @@ (670434 :> 711063)
       @@ (673562 :> 710759)
       @@ (680731 :> 710058)
       @@ (717032 :> 706435)
       @@ (753815 :> 702641)
       @@ (819939 :> 695512)
       @@ (823536 :> 695113)
       @@ (855797 :> 691483)
       @@ (859111 :> 691105)
       @@ (861064 :> 690881)
       @@ (895414 :> 686899)
       @@ (900731 :> 686274)
       @@ (940454 :> 681523)
       @@ (1065285 :> 665725)
       @@ (1074143 :> 664555)
       @@ (1088762 :> 662611)
       @@ (1175256 :> 650761)
       @@ (1353976 :> 624499)
       @@ (1376726 :> 620994)
       @@ (1477798 :> 605015)
       @@ (1500813 :> 601287)
       @@ (1531077 :> 596337)
       @@ (1846468 :> 541896)),
      (   (-2368093 :> 464914)
       @@ (-2259545 :> 470702)
       @@ (-2196505 :> 473822)
       @@ (-1991161 :> 482724)
       @@ (-1975246 :> 483332)
       @@ (-1933834 :> 484856)
       @@ (-1861875 :> 487308)
       @@ (-1812101 :> 488858)
       @@ (-1708481 :> 491695)
       @@ (-1658220 :> 492881)
       @@ (-1618851 :> 493722)
       @@ (-1593645 :> 494220)
       @@ (-1570692 :> 494646)
       @@ (-1537241 :> 495220)
       @@ (-1506442 :> 495700)
       @@ (-1493244 :> 495890)
       @@ (-1460071 :> 496331)
       @@ (-1387788 :> 497102)
       @@ (-1358702 :> 497338)
       @@ (-1358509 :> 497339)
       @@ (-1343419 :> 497445)
       @@ (-1317581 :> 497599)
       @@ (-1302783 :> 497673)
       @@ (-1292181 :> 497719)
       @@ (-1274127 :> 497784)
       @@ (-1267990 :> 497802)
       @@ (-1227429 :> 497877)
       @@ (-1224993 :> 497879)
       @@ (-1152115 :> 497798)
       @@ (-1142178 :> 497767)
       @@ (-1137338 :> 497749)
       @@ (-1127679 :> 497712)
       @@ (-1070882 :> 497397)
       @@ (-1065099 :> 497356)
       @@ (-1047382 :> 497221)
       @@ (-1044138 :> 497194)
       @@ (-1042040 :> 497177)
       @@ (-1021372 :> 496993)
       @@ (-1001511 :> 496798)
       @@ (-939235 :> 496059)
       @@ (-936798 :> 496026)
       @@ (-924876 :> 495861)
       @@ (-915242 :> 495724)
       @@ (-908186 :> 495620)
       @@ (-903641 :> 495552)
       @@ (-902195 :> 495530)
       @@ (-869046 :> 495000)
       @@ (-839290 :> 494480)
       @@ (-825093 :> 494217)
       @@ (-784691 :> 493415)
       @@ (-728486 :> 492172)
       @@ (-699497 :> 491472)
       @@ (-698154 :> 491439)
       @@ (-665773 :> 490610)
       @@ (-665481 :> 490602)
       @@ (-660798 :> 490478)
       @@ (-618021 :> 489298)
       @@ (-614273 :> 489191)
       @@ (-598332 :> 488727)
       @@ (-598074 :> 488719)
       @@ (-587982 :> 488420)
       @@ (-587409 :> 488402)
       @@ (-582626 :> 488259)
       @@ (-573244 :> 487973)
       @@ (-537685 :> 486857)
       @@ (-529941 :> 486606)
       @@ (-529625 :> 486596)
       @@ (-493861 :> 485403)
       @@ (-454684 :> 484030)
       @@ (-430214 :> 483139)
       @@ (-390179 :> 481625)
       @@ (-378840 :> 481183)
       @@ (-347349 :> 479928)
       @@ (-311718 :> 478457)
       @@ (-305614 :> 478200)
       @@ (-288853 :> 477485)
       @@ (-270478 :> 476689)
       @@ (-261305 :> 476285)
       @@ (-243858 :> 475509)
       @@ (-239499 :> 475313)
       @@ (-218418 :> 474355)
       @@ (-156706 :> 471446)
       @@ (-129473 :> 470114)
       @@ (-96672 :> 468470)
       @@ (-88818 :> 468071)
       @@ (-75886 :> 467407)
       @@ (-43896 :> 465739)
       @@ (0 :> 463385)
       @@ (20072 :> 462285)
       @@ (20573 :> 462258)
       @@ (32672 :> 461587)
       @@ (37583 :> 461313)
       @@ (66627 :> 459676)
       @@ (102849 :> 457592)
       @@ (123719 :> 456370)
       @@ (175249 :> 453286)
       @@ (231759 :> 449798)
       @@ (250732 :> 448603)
       @@ (255214 :> 448319)
       @@ (285041 :> 446412)
       @@ (292483 :> 445931)
       @@ (388921 :> 439544)
       @@ (403749 :> 438536)
       @@ (413492 :> 437870)
       @@ (423957 :> 437151)
       @@ (519324 :> 430451)
       @@ (543040 :> 428744)
       @@ (568617 :> 426885)
       @@ (590215 :> 425301)
       @@ (694430 :> 417481)
       @@ (722340 :> 415339)
       @@ (760206 :> 412401)
       @@ (804714 :> 408904)
       @@ (823699 :> 407397)
       @@ (881790 :> 402736)
       @@ (1098133 :> 384744)
       @@ (1205519 :> 375482)
       @@ (1221949 :> 374048)
       @@ (1227276 :> 373582)
       @@ (1448727 :> 353839)),
      (   (-2054299 :> 987359)
       @@ (-1972256 :> 1009322)
       @@ (-1843811 :> 1041519)
       @@ (-1762860 :> 1060377)
       @@ (-1674671 :> 1079609)
       @@ (-1607534 :> 1093309)
       @@ (-1556666 :> 1103135)
       @@ (-1536839 :> 1106834)
       @@ (-1465711 :> 1119495)
       @@ (-1331820 :> 1140698)
       @@ (-1292805 :> 1146219)
       @@ (-1262929 :> 1150245)
       @@ (-1228820 :> 1154626)
       @@ (-1210360 :> 1156901)
       @@ (-1203898 :> 1157681)
       @@ (-1184356 :> 1159991)
       @@ (-1175428 :> 1161020)
       @@ (-1122476 :> 1166799)
       @@ (-1028533 :> 1175665)
       @@ (-1022350 :> 1176186)
       @@ (-976637 :> 1179797)
       @@ (-946849 :> 1181921)
       @@ (-942173 :> 1182239)
       @@ (-902596 :> 1184744)
       @@ (-901059 :> 1184835)
       @@ (-900710 :> 1184855)
       @@ (-883041 :> 1185864)
       @@ (-852398 :> 1187461)
       @@ (-797760 :> 1189832)
       @@ (-778265 :> 1190529)
       @@ (-767274 :> 1190888)
       @@ (-756948 :> 1191202)
       @@ (-713611 :> 1192281)
       @@ (-700570 :> 1192530)
       @@ (-686196 :> 1192764)
       @@ (-680389 :> 1192846)
       @@ (-674957 :> 1192916)
       @@ (-641348 :> 1193218)
       @@ (-600315 :> 1193268)
       @@ (-572636 :> 1193104)
       @@ (-557462 :> 1192947)
       @@ (-533826 :> 1192607)
       @@ (-532366 :> 1192582)
       @@ (-529948 :> 1192540)
       @@ (-503907 :> 1192010)
       @@ (-473354 :> 1191208)
       @@ (-471469 :> 1191152)
       @@ (-448414 :> 1190410)
       @@ (-431564 :> 1189797)
       @@ (-408173 :> 1188848)
       @@ (-391219 :> 1188089)
       @@ (-346814 :> 1185817)
       @@ (-297344 :> 1182803)
       @@ (-283590 :> 1181875)
       @@ (-279769 :> 1181610)
       @@ (-274920 :> 1181269)
       @@ (-266887 :> 1180695)
       @@ (-265122 :> 1180567)
       @@ (-263882 :> 1180476)
       @@ (-222036 :> 1177239)
       @@ (-211121 :> 1176335)
       @@ (-192472 :> 1174734)
       @@ (-164107 :> 1172160)
       @@ (-140177 :> 1169860)
       @@ (-127593 :> 1168604)
       @@ (-104272 :> 1166189)
       @@ (-80573 :> 1163621)
       @@ (-66703 :> 1162065)
       @@ (-43242 :> 1159344)
       @@ (-14482 :> 1155856)
       @@ (-4051 :> 1154550)
       @@ (0 :> 1154037)
       @@ (19528 :> 1151517)
       @@ (56200 :> 1146578)
       @@ (82067 :> 1142934)
       @@ (97774 :> 1140656)
       @@ (112147 :> 1138530)
       @@ (114822 :> 1138130)
       @@ (139449 :> 1134379)
       @@ (208926 :> 1123167)
       @@ (210711 :> 1122866)
       @@ (235937 :> 1118559)
       @@ (272460 :> 1112110)
       @@ (287190 :> 1109439)
       @@ (293842 :> 1108220)
       @@ (296150 :> 1107795)
       @@ (376289 :> 1092439)
       @@ (422394 :> 1083086)
       @@ (431599 :> 1081174)
       @@ (433990 :> 1080675)
       @@ (470745 :> 1072882)
       @@ (570284 :> 1050647)
       @@ (599836 :> 1043738)
       @@ (668723 :> 1027108)
       @@ (675371 :> 1025465)
       @@ (706753 :> 1017623)
       @@ (784842 :> 997496)
       @@ (803655 :> 992521)
       @@ (806122 :> 991865)
       @@ (835762 :> 983920)
       @@ (914835 :> 962169)
       @@ (963198 :> 948484)
       @@ (1171497 :> 886554)
       @@ (1292782 :> 848529)
       @@ (1350367 :> 830041)
       @@ (1508529 :> 778045)),
      (   (-1925687 :> 776583)
       @@ (-1878289 :> 777892)
       @@ (-1857768 :> 778381)
       @@ (-1733503 :> 780351)
       @@ (-1671394 :> 780708)
       @@ (-1474168 :> 779153)
       @@ (-1455346 :> 778796)
       @@ (-1425044 :> 778147)
       @@ (-1355024 :> 776299)
       @@ (-1339803 :> 775834)
       @@ (-1318037 :> 775130)
       @@ (-1300181 :> 774518)
       @@ (-1285572 :> 773994)
       @@ (-1254031 :> 772795)
       @@ (-1167724 :> 769037)
       @@ (-1037252 :> 762064)
       @@ (-1035965 :> 761987)
       @@ (-989241 :> 759118)
       @@ (-982481 :> 758687)
       @@ (-957348 :> 757051)
       @@ (-916228 :> 754257)
       @@ (-904172 :> 753411)
       @@ (-903951 :> 753396)
       @@ (-902394 :> 753286)
       @@ (-889887 :> 752393)
       @@ (-885000 :> 752041)
       @@ (-878135 :> 751543)
       @@ (-876234 :> 751404)
       @@ (-862996 :> 750430)
       @@ (-844042 :> 749011)
       @@ (-838243 :> 748571)
       @@ (-829928 :> 747935)
       @@ (-785845 :> 744470)
       @@ (-781007 :> 744080)
       @@ (-778151 :> 743849)
       @@ (-770207 :> 743203)
       @@ (-764072 :> 742701)
       @@ (-749382 :> 741486)
       @@ (-746201 :> 741221)
       @@ (-709154 :> 738072)
       @@ (-648702 :> 732706)
       @@ (-604634 :> 728618)
       @@ (-596300 :> 727829)
       @@ (-575531 :> 725839)
       @@ (-552860 :> 723631)
       @@ (-551412 :> 723489)
       @@ (-529461 :> 721313)
       @@ (-499216 :> 718258)
       @@ (-464763 :> 714699)
       @@ (-459826 :> 714182)
       @@ (-448991 :> 713041)
       @@ (-431841 :> 711219)
       @@ (-427268 :> 710730)
       @@ (-425499 :> 710541)
       @@ (-400650 :> 707854)
       @@ (-391958 :> 706904)
       @@ (-382846 :> 705903)
       @@ (-347204 :> 701934)
       @@ (-323778 :> 699278)
       @@ (-279904 :> 694209)
       @@ (-246110 :> 690219)
       @@ (-244297 :> 690003)
       @@ (-237715 :> 689217)
       @@ (-236551 :> 689077)
       @@ (-209187 :> 685778)
       @@ (-204467 :> 685204)
       @@ (-186755 :> 683038)
       @@ (-147709 :> 678195)
       @@ (-115746 :> 674163)
       @@ (-41712 :> 664592)
       @@ (-38072 :> 664113)
       @@ (-17594 :> 661406)
       @@ (-14036 :> 660934)
       @@ (-12233 :> 660694)
       @@ (0 :> 659062)
       @@ (4238 :> 658495)
       @@ (27593 :> 655351)
       @@ (35316 :> 654304)
       @@ (52045 :> 652027)
       @@ (84273 :> 647598)
       @@ (113390 :> 643549)
       @@ (133928 :> 640666)
       @@ (135242 :> 640481)
       @@ (146206 :> 638933)
       @@ (174084 :> 634968)
       @@ (258481 :> 622734)
       @@ (271137 :> 620870)
       @@ (286786 :> 618555)
       @@ (294622 :> 617392)
       @@ (297305 :> 616993)
       @@ (311146 :> 614929)
       @@ (326581 :> 612618)
       @@ (328591 :> 612316)
       @@ (341449 :> 610381)
       @@ (351077 :> 608927)
       @@ (435172 :> 596061)
       @@ (570512 :> 574754)
       @@ (609228 :> 568532)
       @@ (618212 :> 567081)
       @@ (628237 :> 565458)
       @@ (893701 :> 521349)
       @@ (905505 :> 519343)
       @@ (912222 :> 518199)
       @@ (969175 :> 508466)
       @@ (1038132 :> 496590)
       @@ (1324177 :> 446582)),
      (   (-1925687 :> 620786)
       @@ (-1878289 :> 621689)
       @@ (-1857768 :> 622033)
       @@ (-1733503 :> 623505)
       @@ (-1671394 :> 623849)
       @@ (-1474168 :> 623217)
       @@ (-1455346 :> 623020)
       @@ (-1425044 :> 622654)
       @@ (-1355024 :> 621574)
       @@ (-1339803 :> 621296)
       @@ (-1318037 :> 620873)
       @@ (-1300181 :> 620503)
       @@ (-1285572 :> 620184)
       @@ (-1254031 :> 619448)
       @@ (-1167724 :> 617106)
       @@ (-1037252 :> 612661)
       @@ (-1035965 :> 612612)
       @@ (-989241 :> 610756)
       @@ (-982481 :> 610476)
       @@ (-957348 :> 609412)
       @@ (-916228 :> 607587)
       @@ (-904172 :> 607032)
       @@ (-903951 :> 607022)
       @@ (-902394 :> 606950)
       @@ (-889887 :> 606364)
       @@ (-885000 :> 606132)
       @@ (-878135 :> 605805)
       @@ (-876234 :> 605713)
       @@ (-862996 :> 605072)
       @@ (-844042 :> 604136)
       @@ (-838243 :> 603845)
       @@ (-829928 :> 603424)
       @@ (-785845 :> 601127)
       @@ (-781007 :> 600868)
       @@ (-778151 :> 600715)
       @@ (-770207 :> 600285)
       @@ (-764072 :> 599951)
       @@ (-749382 :> 599141)
       @@ (-746201 :> 598964)
       @@ (-709154 :> 596861)
       @@ (-648702 :> 593261)
       @@ (-604634 :> 590508)
       @@ (-596300 :> 589975)
       @@ (-575531 :> 588631)
       @@ (-552860 :> 587137)
       @@ (-551412 :> 587041)
       @@ (-529461 :> 585566)
       @@ (-499216 :> 583492)
       @@ (-464763 :> 581071)
       @@ (-459826 :> 580719)
       @@ (-448991 :> 579942)
       @@ (-431841 :> 578699)
       @@ (-427268 :> 578365)
       @@ (-425499 :> 578236)
       @@ (-400650 :> 576401)
       @@ (-391958 :> 575752)
       @@ (-382846 :> 575067)
       @@ (-347204 :> 572349)
       @@ (-323778 :> 570528)
       @@ (-279904 :> 567047)
       @@ (-246110 :> 564302)
       @@ (-244297 :> 564153)
       @@ (-237715 :> 563612)
       @@ (-236551 :> 563516)
       @@ (-209187 :> 561242)
       @@ (-204467 :> 560846)
       @@ (-186755 :> 559352)
       @@ (-147709 :> 556008)
       @@ (-115746 :> 553220)
       @@ (-41712 :> 546590)
       @@ (-38072 :> 546258)
       @@ (-17594 :> 544381)
       @@ (-14036 :> 544052)
       @@ (-12233 :> 543886)
       @@ (0 :> 542753)
       @@ (4238 :> 542359)
       @@ (27593 :> 540176)
       @@ (35316 :> 539449)
       @@ (52045 :> 537866)
       @@ (84273 :> 534785)
       @@ (113390 :> 531967)
       @@ (133928 :> 529959)
       @@ (135242 :> 529830)
       @@ (146206 :> 528751)
       @@ (174084 :> 525988)
       @@ (258481 :> 517451)
       @@ (271137 :> 516150)
       @@ (286786 :> 514532)
       @@ (294622 :> 513719)
       @@ (297305 :> 513440)
       @@ (311146 :> 511998)
       @@ (326581 :> 510382)
       @@ (328591 :> 510171)
       @@ (341449 :> 508818)
       @@ (351077 :> 507801)
       @@ (435172 :> 498795)
       @@ (570512 :> 483853)
       @@ (609228 :> 479484)
       @@ (618212 :> 478465)
       @@ (628237 :> 477325)
       @@ (893701 :> 446255)
       @@ (905505 :> 444837)
       @@ (912222 :> 444030)
       @@ (969175 :> 437146)
       @@ (1038132 :> 428734)
       @@ (1324177 :> 393087)),
      (   (-2299033 :> 1067518)
       @@ (-1985286 :> 1207970)
       @@ (-1913853 :> 1236547)
       @@ (-1709154 :> 1310131)
       @@ (-1687332 :> 1317208)
       @@ (-1630467 :> 1334927)
       @@ (-1583407 :> 1348791)
       @@ (-1393192 :> 1397295)
       @@ (-1374523 :> 1401397)
       @@ (-1363582 :> 1403746)
       @@ (-1339213 :> 1408831)
       @@ (-1287098 :> 1419026)
       @@ (-1254102 :> 1425002)
       @@ (-1165067 :> 1439276)
       @@ (-1103106 :> 1447615)
       @@ (-1087369 :> 1449525)
       @@ (-1067945 :> 1451766)
       @@ (-1062990 :> 1452317)
       @@ (-1058165 :> 1452846)
       @@ (-1034630 :> 1455312)
       @@ (-990828 :> 1459400)
       @@ (-989910 :> 1459479)
       @@ (-966355 :> 1461401)
       @@ (-957555 :> 1462071)
       @@ (-936902 :> 1463541)
       @@ (-927299 :> 1464175)
       @@ (-888646 :> 1466412)
       @@ (-858488 :> 1467806)
       @@ (-857929 :> 1467829)
       @@ (-852211 :> 1468057)
       @@ (-841415 :> 1468459)
       @@ (-831555 :> 1468791)
       @@ (-805319 :> 1469516)
       @@ (-781737 :> 1469968)
       @@ (-767228 :> 1470153)
       @@ (-762815 :> 1470196)
       @@ (-745778 :> 1470297)
       @@ (-717336 :> 1470248)
       @@ (-702379 :> 1470113)
       @@ (-641082 :> 1468769)
       @@ (-609940 :> 1467600)
       @@ (-586045 :> 1466481)
       @@ (-563505 :> 1465248)
       @@ (-552561 :> 1464588)
       @@ (-546117 :> 1464180)
       @@ (-545650 :> 1464150)
       @@ (-540693 :> 1463826)
       @@ (-530439 :> 1463130)
       @@ (-508257 :> 1461501)
       @@ (-447460 :> 1456184)
       @@ (-433008 :> 1454736)
       @@ (-421107 :> 1453491)
       @@ (-389470 :> 1449947)
       @@ (-387652 :> 1449733)
       @@ (-372274 :> 1447879)
       @@ (-369285 :> 1447509)
       @@ (-368974 :> 1447471)
       @@ (-363557 :> 1446793)
       @@ (-345457 :> 1444454)
       @@ (-339233 :> 1443625)
       @@ (-330334 :> 1442416)
       @@ (-238493 :> 1428380)
       @@ (-233611 :> 1427554)
       @@ (-226726 :> 1426376)
       @@ (-217718 :> 1424811)
       @@ (-180551 :> 1418065)
       @@ (-179339 :> 1417837)
       @@ (-135330 :> 1409234)
       @@ (-104271 :> 1402775)
       @@ (-94488 :> 1400674)
       @@ (-70935 :> 1395487)
       @@ (-66330 :> 1394451)
       @@ (-66168 :> 1394415)
       @@ (-58688 :> 1392717)
       @@ (-58650 :> 1392709)
       @@ (-2091 :> 1379281)
       @@ (0 :> 1378764)
       @@ (42103 :> 1368066)
       @@ (96161 :> 1353496)
       @@ (113856 :> 1348526)
       @@ (122365 :> 1346102)
       @@ (123628 :> 1345739)
       @@ (130028 :> 1343898)
       @@ (137361 :> 1341773)
       @@ (165298 :> 1333522)
       @@ (215029 :> 1318244)
       @@ (236511 :> 1311413)
       @@ (252333 :> 1306293)
       @@ (255387 :> 1305297)
       @@ (311354 :> 1286550)
       @@ (336176 :> 1277947)
       @@ (361949 :> 1268830)
       @@ (383935 :> 1260908)
       @@ (421762 :> 1246970)
       @@ (425664 :> 1245511)
       @@ (432036 :> 1243119)
       @@ (520382 :> 1208875)
       @@ (660404 :> 1150770)
       @@ (663738 :> 1149334)
       @@ (708840 :> 1129681)
       @@ (736069 :> 1117622)
       @@ (865568 :> 1058469)
       @@ (901744 :> 1041472)
       @@ (997537 :> 995638)
       @@ (1075705 :> 957511)
       @@ (1359644 :> 816268)),
      (   (-2054299 :> 680497)
       @@ (-1972256 :> 686899)
       @@ (-1843811 :> 695670)
       @@ (-1762860 :> 700390)
       @@ (-1674671 :> 704804)
       @@ (-1607534 :> 707648)
       @@ (-1556666 :> 709502)
       @@ (-1536839 :> 710154)
       @@ (-1465711 :> 712165)
       @@ (-1331820 :> 714547)
       @@ (-1292805 :> 714895)
       @@ (-1262929 :> 715056)
       @@ (-1228820 :> 715127)
       @@ (-1210360 :> 715115)
       @@ (-1203898 :> 715103)
       @@ (-1184356 :> 715039)
       @@ (-1175428 :> 714997)
       @@ (-1122476 :> 714579)
       @@ (-1028533 :> 713130)
       @@ (-1022350 :> 713003)
       @@ (-976637 :> 711943)
       @@ (-946849 :> 711139)
       @@ (-942173 :> 711004)
       @@ (-902596 :> 709778)
       @@ (-901059 :> 709728)
       @@ (-900710 :> 709716)
       @@ (-883041 :> 709115)
       @@ (-852398 :> 707998)
       @@ (-797760 :> 705775)
       @@ (-778265 :> 704910)
       @@ (-767274 :> 704406)
       @@ (-756948 :> 703922)
       @@ (-713611 :> 701777)
       @@ (-700570 :> 701096)
       @@ (-686196 :> 700326)
       @@ (-680389 :> 700009)
       @@ (-674957 :> 699710)
       @@ (-641348 :> 697797)
       @@ (-600315 :> 695316)
       @@ (-572636 :> 693553)
       @@ (-557462 :> 692556)
       @@ (-533826 :> 690960)
       @@ (-532366 :> 690860)
       @@ (-529948 :> 690694)
       @@ (-503907 :> 688867)
       @@ (-473354 :> 686646)
       @@ (-471469 :> 686506)
       @@ (-448414 :> 684770)
       @@ (-431564 :> 683471)
       @@ (-408173 :> 681627)
       @@ (-391219 :> 680259)
       @@ (-346814 :> 676559)
       @@ (-297344 :> 672238)
       @@ (-283590 :> 671000)
       @@ (-279769 :> 670653)
       @@ (-274920 :> 670211)
       @@ (-266887 :> 669475)
       @@ (-265122 :> 669312)
       @@ (-263882 :> 669198)
       @@ (-222036 :> 665266)
       @@ (-211121 :> 664217)
       @@ (-192472 :> 662402)
       @@ (-164107 :> 659588)
       @@ (-140177 :> 657165)
       @@ (-127593 :> 655872)
       @@ (-104272 :> 653445)
       @@ (-80573 :> 650935)
       @@ (-66703 :> 649447)
       @@ (-43242 :> 646896)
       @@ (-14482 :> 643714)
       @@ (-4051 :> 642545)
       @@ (0 :> 642089)
       @@ (19528 :> 639873)
       @@ (56200 :> 635639)
       @@ (82067 :> 632596)
       @@ (97774 :> 630726)
       @@ (112147 :> 629000)
       @@ (114822 :> 628677)
       @@ (139449 :> 625683)
       @@ (208926 :> 617022)
       @@ (210711 :> 616796)
       @@ (235937 :> 613572)
       @@ (272460 :> 608836)
       @@ (287190 :> 606903)
       @@ (293842 :> 606026)
       @@ (296150 :> 605721)
       @@ (376289 :> 594944)
       @@ (422394 :> 588582)
       @@ (431599 :> 587298)
       @@ (433990 :> 586964)
       @@ (470745 :> 581790)
       @@ (570284 :> 567443)
       @@ (599836 :> 563094)
       @@ (668723 :> 552811)
       @@ (675371 :> 551808)
       @@ (706753 :> 547051)
       @@ (784842 :> 535051)
       @@ (803655 :> 532128)
       @@ (806122 :> 531744)
       @@ (835762 :> 527112)
       @@ (914835 :> 514620)
       @@ (963198 :> 506893)
       @@ (1171497 :> 473005)
       @@ (1292782 :> 452953)
       @@ (1350367 :> 443384)
       @@ (1508529 :> 417043)),
      (   (-2368093 :> 1113708)
       @@ (-2259545 :> 1135373)
       @@ (-2196505 :> 1146507)
       @@ (-1991161 :> 1175335)
       @@ (-1975246 :> 1177096)
       @@ (-1933834 :> 1181360)
       @@ (-1861875 :> 1187689)
       @@ (-1812101 :> 1191274)
       @@ (-1708481 :> 1196695)
       @@ (-1658220 :> 1198352)
       @@ (-1618851 :> 1199216)
       @@ (-1593645 :> 1199572)
       @@ (-1570692 :> 1199764)
       @@ (-1537241 :> 1199821)
       @@ (-1506442 :> 1199642)
       @@ (-1493244 :> 1199498)
       @@ (-1460071 :> 1198962)
       @@ (-1387788 :> 1196944)
       @@ (-1358702 :> 1195810)
       @@ (-1358509 :> 1195802)
       @@ (-1343419 :> 1195142)
       @@ (-1317581 :> 1193901)
       @@ (-1302783 :> 1193127)
       @@ (-1292181 :> 1192546)
       @@ (-1274127 :> 1191502)
       @@ (-1267990 :> 1191132)
       @@ (-1227429 :> 1188499)
       @@ (-1224993 :> 1188330)
       @@ (-1152115 :> 1182758)
       @@ (-1142178 :> 1181920)
       @@ (-1137338 :> 1181506)
       @@ (-1127679 :> 1180665)
       @@ (-1070882 :> 1175380)
       @@ (-1065099 :> 1174810)
       @@ (-1047382 :> 1173026)
       @@ (-1044138 :> 1172693)
       @@ (-1042040 :> 1172477)
       @@ (-1039297 :> 1172194)
       @@ (-1021372 :> 1170308)
       @@ (-1001511 :> 1168156)
       @@ (-991155 :> 1167007)
       @@ (-988595 :> 1166721)
       @@ (-939235 :> 1160983)
       @@ (-936798 :> 1160690)
       @@ (-924876 :> 1159240)
       @@ (-915242 :> 1158053)
       @@ (-908186 :> 1157174)
       @@ (-903641 :> 1156603)
       @@ (-902195 :> 1156421)
       @@ (-869046 :> 1152158)
       @@ (-839290 :> 1148190)
       @@ (-825093 :> 1146251)
       @@ (-784691 :> 1140574)
       @@ (-728486 :> 1132296)
       @@ (-699497 :> 1127860)
       @@ (-698154 :> 1127652)
       @@ (-665773 :> 1122562)
       @@ (-665481 :> 1122515)
       @@ (-664240 :> 1122318)
       @@ (-660798 :> 1121768)
       @@ (-618021 :> 1114815)
       @@ (-614273 :> 1114195)
       @@ (-598332 :> 1111540)
       @@ (-598074 :> 1111497)
       @@ (-587982 :> 1109800)
       @@ (-587409 :> 1109703)
       @@ (-582626 :> 1108895)
       @@ (-573244 :> 1107301)
       @@ (-564684 :> 1105837)
       @@ (-537685 :> 1101167)
       @@ (-529941 :> 1099812)
       @@ (-529625 :> 1099757)
       @@ (-521237 :> 1098282)
       @@ (-493861 :> 1093414)
       @@ (-454684 :> 1086308)
       @@ (-430214 :> 1081789)
       @@ (-390179 :> 1074266)
       @@ (-378840 :> 1072107)
       @@ (-347349 :> 1066046)
       @@ (-311718 :> 1059079)
       @@ (-305614 :> 1057874)
       @@ (-288853 :> 1054548)
       @@ (-270478 :> 1050874)
       @@ (-261305 :> 1049029)
       @@ (-243858 :> 1045501)
       @@ (-239499 :> 1044615)
       @@ (-218418 :> 1040311)
       @@ (-156706 :> 1027508)
       @@ (-138405 :> 1023655)
       @@ (-129473 :> 1021766)
       @@ (-96672 :> 1014779)
       @@ (-88818 :> 1013095)
       @@ (-75886 :> 1010312)
       @@ (-43896 :> 1003380)
       @@ (0 :> 993758)
       @@ (20072 :> 989318)
       @@ (20573 :> 989207)
       @@ (32672 :> 986518)
       @@ (37583 :> 985425)
       @@ (45869 :> 983576)
       @@ (66627 :> 978926)
       @@ (102849 :> 970753)
       @@ (123719 :> 966011)
       @@ (152983 :> 959321)
       @@ (175249 :> 954201)
       @@ (231759 :> 941093)
       @@ (250732 :> 936658)
       @@ (255214 :> 935607)
       @@ (285041 :> 928593)
       @@ (292483 :> 926836)
       @@ (388921 :> 903850)
       @@ (403749 :> 900280)
       @@ (413492 :> 897930)
       @@ (423957 :> 895400)
       @@ (519324 :> 872145)
       @@ (543040 :> 866305)
       @@ (568617 :> 859981)
       @@ (590215 :> 854622)
       @@ (694430 :> 828503)
       @@ (722340 :> 821435)
       @@ (760206 :> 811796)
       @@ (804714 :> 800393)
       @@ (823699 :> 795504)
       @@ (881790 :> 780452)
       @@ (1098133 :> 723115)
       @@ (1205519 :> 693881)
       @@ (1221949 :> 689363)
       @@ (1227276 :> 687896)
       @@ (1448727 :> 625836)),
      (   (-1538396 :> 441244)
       @@ (-1351553 :> 459604)
       @@ (-1205787 :> 473243)
       @@ (-1201464 :> 473638)
       @@ (-1123441 :> 480664)
       @@ (-950427 :> 495552)
       @@ (-904385 :> 499346)
       @@ (-831822 :> 505177)
       @@ (-778585 :> 509338)
       @@ (-718606 :> 513903)
       @@ (-716269 :> 514078)
       @@ (-677076 :> 516987)
       @@ (-641325 :> 519590)
       @@ (-566210 :> 524902)
       @@ (-564040 :> 525053)
       @@ (-541034 :> 526635)
       @@ (-532399 :> 527223)
       @@ (-518534 :> 528162)
       @@ (-475134 :> 531052)
       @@ (-467289 :> 531567)
       @@ (-422310 :> 534470)
       @@ (-388631 :> 536590)
       @@ (-341716 :> 539468)
       @@ (-336411 :> 539788)
       @@ (-286205 :> 542756)
       @@ (-283306 :> 542924)
       @@ (-271985 :> 543578)
       @@ (-261257 :> 544193)
       @@ (-246134 :> 545051)
       @@ (-216460 :> 546707)
       @@ (-211730 :> 546967)
       @@ (-140506 :> 550776)
       @@ (-91312 :> 553280)
       @@ (-57359 :> 554947)
       @@ (-52575 :> 555178)
       @@ (-49271 :> 555337)
       @@ (-25847 :> 556450)
       @@ (-23417 :> 556564)
       @@ (-7904 :> 557286)
       @@ (0 :> 557650)
       @@ (4666 :> 557863)
       @@ (10666 :> 558136)
       @@ (35038 :> 559229)
       @@ (47194 :> 559765)
       @@ (105002 :> 562221)
       @@ (114892 :> 562627)
       @@ (134265 :> 563408)
       @@ (198073 :> 565862)
       @@ (208756 :> 566255)
       @@ (215071 :> 566484)
       @@ (233473 :> 567144)
       @@ (233666 :> 567151)
       @@ (239183 :> 567345)
       @@ (286416 :> 568954)
       @@ (324997 :> 570193)
       @@ (327865 :> 570282)
       @@ (352559 :> 571036)
       @@ (359010 :> 571228)
       @@ (359827 :> 571252)
       @@ (361345 :> 571297)
       @@ (364297 :> 571384)
       @@ (366418 :> 571446)
       @@ (367172 :> 571468)
       @@ (375333 :> 571706)
       @@ (463110 :> 574063)
       @@ (480383 :> 574484)
       @@ (488043 :> 574667)
       @@ (513955 :> 575264)
       @@ (515641 :> 575301)
       @@ (519552 :> 575388)
       @@ (530455 :> 575627)
       @@ (616297 :> 577313)
       @@ (625174 :> 577467)
       @@ (648163 :> 577850)
       @@ (659239 :> 578025)
       @@ (721102 :> 578898)
       @@ (722586 :> 578917)
       @@ (725807 :> 578957)
       @@ (738972 :> 579116)
       @@ (746293 :> 579201)
       @@ (766766 :> 579425)
       @@ (788468 :> 579641)
       @@ (805977 :> 579799)
       @@ (813566 :> 579863)
       @@ (825242 :> 579955)
       @@ (842872 :> 580083)
       @@ (876428 :> 580285)
       @@ (893409 :> 580367)
       @@ (924000 :> 580479)
       @@ (926439 :> 580486)
       @@ (958180 :> 580551)
       @@ (1026332 :> 580527)
       @@ (1034777 :> 580509)
       @@ (1064868 :> 580415)
       @@ (1127562 :> 580079)
       @@ (1153112 :> 579887)
       @@ (1164211 :> 579795)
       @@ (1268782 :> 578627)
       @@ (1286603 :> 578375)
       @@ (1402720 :> 576361)
       @@ (1436870 :> 575644)
       @@ (1485746 :> 574521)
       @@ (1564275 :> 572475)
       @@ (1687348 :> 568674)
       @@ (1755547 :> 566255)
       @@ (1927246 :> 559184)),
      (   (-1538396 :> 621854)
       @@ (-1351553 :> 654097)
       @@ (-1205787 :> 678099)
       @@ (-1201464 :> 678794)
       @@ (-1123441 :> 691154)
       @@ (-950427 :> 717259)
       @@ (-904385 :> 723880)
       @@ (-831822 :> 734015)
       @@ (-778585 :> 741209)
       @@ (-718606 :> 749059)
       @@ (-716269 :> 749359)
       @@ (-677076 :> 754329)
       @@ (-641325 :> 758756)
       @@ (-566210 :> 767713)
       @@ (-564040 :> 767965)
       @@ (-541034 :> 770609)
       @@ (-532399 :> 771589)
       @@ (-518534 :> 773150)
       @@ (-475134 :> 777925)
       @@ (-467289 :> 778771)
       @@ (-422310 :> 783510)
       @@ (-388631 :> 786937)
       @@ (-341716 :> 791534)
       @@ (-336411 :> 792040)
       @@ (-286205 :> 796701)
       @@ (-283306 :> 796963)
       @@ (-271985 :> 797977)
       @@ (-261257 :> 798926)
       @@ (-246134 :> 800245)
       @@ (-216460 :> 802767)
       @@ (-211730 :> 803161)
       @@ (-140506 :> 808817)
       @@ (-91312 :> 812420)
       @@ (-57359 :> 814759)
       @@ (-52575 :> 815079)
       @@ (-49271 :> 815299)
       @@ (-25847 :> 816821)
       @@ (-23417 :> 816976)
       @@ (-7904 :> 817948)
       @@ (0 :> 818434)
       @@ (4666 :> 818717)
       @@ (10666 :> 819078)
       @@ (35038 :> 820505)
       @@ (47194 :> 821193)
       @@ (105002 :> 824242)
       @@ (114892 :> 824727)
       @@ (134265 :> 825646)
       @@ (198073 :> 828377)
       @@ (208756 :> 828790)
       @@ (215071 :> 829028)
       @@ (233473 :> 829695)
       @@ (233666 :> 829702)
       @@ (239183 :> 829895)
       @@ (286416 :> 831404)
       @@ (324997 :> 832448)
       @@ (327865 :> 832519)
       @@ (352559 :> 833089)
       @@ (359010 :> 833227)
       @@ (359827 :> 833244)
       @@ (361345 :> 833276)
       @@ (364297 :> 833336)
       @@ (366418 :> 833379)
       @@ (367172 :> 833394)
       @@ (375333 :> 833554)
       @@ (463110 :> 834785)
       @@ (480383 :> 834923)
       @@ (488043 :> 834972)
       @@ (513955 :> 835090)
       @@ (515641 :> 835095)
       @@ (519552 :> 835106)
       @@ (530455 :> 835125)
       @@ (616297 :> 834792)
       @@ (625174 :> 834708)
       @@ (648163 :> 834449)
       @@ (659239 :> 834302)
       @@ (721102 :> 833217)
       @@ (722586 :> 833186)
       @@ (725807 :> 833116)
       @@ (738972 :> 832820)
       @@ (746293 :> 832647)
       @@ (766766 :> 832129)
       @@ (788468 :> 831527)
       @@ (805977 :> 831001)
       @@ (813566 :> 830761)
       @@ (825242 :> 830380)
       @@ (842872 :> 829775)
       @@ (876428 :> 828522)
       @@ (893409 :> 827838)
       @@ (924000 :> 826521)
       @@ (926439 :> 826412)
       @@ (958180 :> 824922)
       @@ (1026332 :> 821329)
       @@ (1034777 :> 820847)
       @@ (1064868 :> 819061)
       @@ (1127562 :> 815008)
       @@ (1153112 :> 813228)
       @@ (1164211 :> 812432)
       @@ (1268782 :> 804250)
       @@ (1286603 :> 802734)
       @@ (1402720 :> 792001)
       @@ (1436870 :> 788565)
       @@ (1485746 :> 783431)
       @@ (1564275 :> 774655)
       @@ (1687348 :> 759622)
       @@ (1755547 :> 750639)
       @@ (1927246 :> 726055)),
      (   (-1538396 :> 399879)
       @@ (-1351553 :> 412332)
       @@ (-1205787 :> 421416)
       @@ (-1201464 :> 421677)
       @@ (-1123441 :> 426283)
       @@ (-950427 :> 435834)
       @@ (-904385 :> 438214)
       @@ (-831822 :> 441821)
       @@ (-778585 :> 444353)
       @@ (-718606 :> 447085)
       @@ (-716269 :> 447189)
       @@ (-677076 :> 448902)
       @@ (-641325 :> 450415)
       @@ (-566210 :> 453439)
       @@ (-564040 :> 453523)
       @@ (-541034 :> 454405)
       @@ (-532399 :> 454731)
       @@ (-518534 :> 455248)
       @@ (-475134 :> 456818)
       @@ (-467289 :> 457094)
       @@ (-422310 :> 458630)
       @@ (-388631 :> 459728)
       @@ (-341716 :> 461182)
       @@ (-336411 :> 461341)
       @@ (-286205 :> 462788)
       @@ (-283306 :> 462868)
       @@ (-271985 :> 463179)
       @@ (-261257 :> 463468)
       @@ (-246134 :> 463868)
       @@ (-216460 :> 464626)
       @@ (-211730 :> 464744)
       @@ (-140506 :> 466399)
       @@ (-91312 :> 467418)
       @@ (-57359 :> 468061)
       @@ (-52575 :> 468148)
       @@ (-49271 :> 468207)
       @@ (-25847 :> 468615)
       @@ (-23417 :> 468656)
       @@ (-7904 :> 468911)
       @@ (0 :> 469037)
       @@ (4666 :> 469110)
       @@ (10666 :> 469203)
       @@ (35038 :> 469564)
       @@ (47194 :> 469734)
       @@ (105002 :> 470457)
       @@ (114892 :> 470566)
       @@ (134265 :> 470768)
       @@ (198073 :> 471317)
       @@ (208756 :> 471392)
       @@ (215071 :> 471433)
       @@ (233473 :> 471545)
       @@ (233666 :> 471546)
       @@ (239183 :> 471577)
       @@ (286416 :> 471784)
       @@ (324997 :> 471881)
       @@ (327865 :> 471885)
       @@ (352559 :> 471910)
       @@ (359010 :> 471912)
       @@ (359827 :> 471912)
       @@ (361345 :> 471912)
       @@ (364297 :> 471912)
       @@ (366418 :> 471912)
       @@ (367172 :> 471912)
       @@ (375333 :> 471909)
       @@ (463110 :> 471693)
       @@ (480383 :> 471610)
       @@ (488043 :> 471570)
       @@ (513955 :> 471413)
       @@ (515641 :> 471402)
       @@ (519552 :> 471375)
       @@ (530455 :> 471298)
       @@ (616297 :> 470508)
       @@ (625174 :> 470408)
       @@ (648163 :> 470133)
       @@ (659239 :> 469992)
       @@ (721102 :> 469109)
       @@ (722586 :> 469086)
       @@ (725807 :> 469035)
       @@ (738972 :> 468823)
       @@ (746293 :> 468702)
       @@ (766766 :> 468351)
       @@ (788468 :> 467959)
       @@ (805977 :> 467628)
       @@ (813566 :> 467481)
       @@ (825242 :> 467249)
       @@ (842872 :> 466889)
       @@ (876428 :> 466166)
       @@ (893409 :> 465782)
       @@ (924000 :> 465059)
       @@ (926439 :> 465000)
       @@ (958180 :> 464205)
       @@ (1026332 :> 462356)
       @@ (1034777 :> 462113)
       @@ (1064868 :> 461225)
       @@ (1127562 :> 459255)
       @@ (1153112 :> 458407)
       @@ (1164211 :> 458030)
       @@ (1268782 :> 454236)
       @@ (1286603 :> 453546)
       @@ (1402720 :> 448749)
       @@ (1436870 :> 447239)
       @@ (1485746 :> 445003)
       @@ (1564275 :> 441223)
       @@ (1687348 :> 434850)
       @@ (1755547 :> 431090)
       @@ (1927246 :> 420931)),
      (   (-2299033 :> 1358653)
       @@ (-1985286 :> 1704932)
       @@ (-1913853 :> 1781204)
       @@ (-1709154 :> 1986821)
       @@ (-1687332 :> 2007296)
       @@ (-1630467 :> 2059092)
       @@ (-1583407 :> 2100146)
       @@ (-1393192 :> 2247239)
       @@ (-1374523 :> 2259905)
       @@ (-1363582 :> 2267172)
       @@ (-1339213 :> 2282937)
       @@ (-1287098 :> 2314669)
       @@ (-1254102 :> 2333331)
       @@ (-1165067 :> 2377986)
       @@ (-1103106 :> 2404017)
       @@ (-1087369 :> 2409954)
       @@ (-1067945 :> 2416902)
       @@ (-1062990 :> 2418606)
       @@ (-1058165 :> 2420240)
       @@ (-1034630 :> 2427833)
       @@ (-990828 :> 2440294)
       @@ (-989910 :> 2440531)
       @@ (-966355 :> 2446302)
       @@ (-957555 :> 2448295)
       @@ (-936902 :> 2452622)
       @@ (-927299 :> 2454466)
       @@ (-888646 :> 2460810)
       @@ (-858488 :> 2464555)
       @@ (-857929 :> 2464614)
       @@ (-852211 :> 2465201)
       @@ (-841415 :> 2466205)
       @@ (-831555 :> 2467003)
       @@ (-805319 :> 2468573)
       @@ (-781737 :> 2469298)
       @@ (-767228 :> 2469420)
       @@ (-762815 :> 2469409)
       @@ (-745778 :> 2469150)
       @@ (-717336 :> 2467962)
       @@ (-702379 :> 2466959)
       @@ (-641082 :> 2460120)
       @@ (-609940 :> 2454974)
       @@ (-586045 :> 2450266)
       @@ (-563505 :> 2445223)
       @@ (-552561 :> 2442565)
       @@ (-546117 :> 2440936)
       @@ (-545650 :> 2440816)
       @@ (-540693 :> 2439529)
       @@ (-530439 :> 2436776)
       @@ (-508257 :> 2430412)
       @@ (-447460 :> 2410139)
       @@ (-433008 :> 2404715)
       @@ (-421107 :> 2400077)
       @@ (-389470 :> 2386995)
       @@ (-387652 :> 2386211)
       @@ (-372274 :> 2379431)
       @@ (-369285 :> 2378084)
       @@ (-368974 :> 2377943)
       @@ (-363557 :> 2375475)
       @@ (-345457 :> 2367004)
       @@ (-339233 :> 2364011)
       @@ (-330334 :> 2359660)
       @@ (-238493 :> 2309994)
       @@ (-233611 :> 2307116)
       @@ (-226726 :> 2303016)
       @@ (-217718 :> 2297583)
       @@ (-180551 :> 2274334)
       @@ (-179339 :> 2273554)
       @@ (-135330 :> 2244288)
       @@ (-104271 :> 2222565)
       @@ (-94488 :> 2215545)
       @@ (-70935 :> 2198301)
       @@ (-66330 :> 2194874)
       @@ (-66168 :> 2194752)
       @@ (-58688 :> 2189146)
       @@ (-58650 :> 2189117)
       @@ (-2091 :> 2145214)
       @@ (0 :> 2143541)
       @@ (42103 :> 2109133)
       @@ (96161 :> 2063012)
       @@ (113856 :> 2047466)
       @@ (122365 :> 2039915)
       @@ (123628 :> 2038789)
       @@ (130028 :> 2033073)
       @@ (137361 :> 2026489)
       @@ (165298 :> 2001088)
       @@ (215029 :> 1954685)
       @@ (236511 :> 1934198)
       @@ (252333 :> 1918949)
       @@ (255387 :> 1915990)
       @@ (311354 :> 1860942)
       @@ (336176 :> 1836058)
       @@ (361949 :> 1809944)
       @@ (383935 :> 1787459)
       @@ (421762 :> 1748362)
       @@ (425664 :> 1744301)
       @@ (432036 :> 1737660)
       @@ (520382 :> 1644427)
       @@ (660404 :> 1493795)
       @@ (663738 :> 1490189)
       @@ (708840 :> 1441393)
       @@ (736069 :> 1411958)
       @@ (865568 :> 1273029)
       @@ (901744 :> 1234752)
       @@ (997537 :> 1135111)
       @@ (1075705 :> 1056113)
       @@ (1359644 :> 792852)),
      (   (-1759564 :> 776671)
       @@ (-1547227 :> 816362)
       @@ (-1493264 :> 825780)
       @@ (-1376994 :> 845100)
       @@ (-1374394 :> 845516)
       @@ (-1327984 :> 852834)
       @@ (-1132681 :> 881143)
       @@ (-1013542 :> 896368)
       @@ (-1011944 :> 896561)
       @@ (-940372 :> 904925)
       @@ (-911370 :> 908147)
       @@ (-856415 :> 913985)
       @@ (-846059 :> 915045)
       @@ (-789045 :> 920661)
       @@ (-773970 :> 922081)
       @@ (-768147 :> 922623)
       @@ (-695682 :> 929026)
       @@ (-694457 :> 929129)
       @@ (-689341 :> 929557)
       @@ (-602554 :> 936334)
       @@ (-585909 :> 937530)
       @@ (-584400 :> 937637)
       @@ (-559341 :> 939370)
       @@ (-555396 :> 939636)
       @@ (-521899 :> 941818)
       @@ (-519282 :> 941983)
       @@ (-502396 :> 943026)
       @@ (-499037 :> 943229)
       @@ (-494836 :> 943482)
       @@ (-487786 :> 943900)
       @@ (-480908 :> 944303)
       @@ (-452192 :> 945921)
       @@ (-431326 :> 947034)
       @@ (-420277 :> 947602)
       @@ (-408982 :> 948166)
       @@ (-342396 :> 951178)
       @@ (-329504 :> 951698)
       @@ (-327786 :> 951765)
       @@ (-293443 :> 953043)
       @@ (-282989 :> 953403)
       @@ (-144659 :> 956892)
       @@ (-134258 :> 957058)
       @@ (-131861 :> 957094)
       @@ (-93586 :> 957577)
       @@ (-90064 :> 957613)
       @@ (-81850 :> 957689)
       @@ (-73223 :> 957760)
       @@ (-58803 :> 957858)
       @@ (-43618 :> 957933)
       @@ (-42898 :> 957936)
       @@ (-41572 :> 957941)
       @@ (-39458 :> 957948)
       @@ (-28448 :> 957979)
       @@ (-26864 :> 957982)
       @@ (-7054 :> 957994)
       @@ (-5296 :> 957993)
       @@ (0 :> 957987)
       @@ (13287 :> 957956)
       @@ (17679 :> 957941)
       @@ (19219 :> 957935)
       @@ (25439 :> 957908)
       @@ (28118 :> 957895)
       @@ (42460 :> 957810)
       @@ (43603 :> 957802)
       @@ (78149 :> 957486)
       @@ (79941 :> 957466)
       @@ (80480 :> 957459)
       @@ (81184 :> 957451)
       @@ (81220 :> 957451)
       @@ (93288 :> 957300)
       @@ (107127 :> 957105)
       @@ (121884 :> 956870)
       @@ (125914 :> 956801)
       @@ (158547 :> 956167)
       @@ (185258 :> 955547)
       @@ (248551 :> 953719)
       @@ (302481 :> 951760)
       @@ (314010 :> 951293)
       @@ (327979 :> 950705)
       @@ (350343 :> 949712)
       @@ (366293 :> 948964)
       @@ (379593 :> 948317)
       @@ (390617 :> 947762)
       @@ (398630 :> 947350)
       @@ (400113 :> 947273)
       @@ (400757 :> 947239)
       @@ (408107 :> 946852)
       @@ (417213 :> 946362)
       @@ (445375 :> 944781)
       @@ (458292 :> 944022)
       @@ (481178 :> 942626)
       @@ (483346 :> 942490)
       @@ (502319 :> 941277)
       @@ (518755 :> 940189)
       @@ (520247 :> 940088)
       @@ (533176 :> 939206)
       @@ (537491 :> 938907)
       @@ (565526 :> 936905)
       @@ (588156 :> 935217)
       @@ (600220 :> 934290)
       @@ (607937 :> 933688)
       @@ (615359 :> 933102)
       @@ (635885 :> 931444)
       @@ (660780 :> 929362)
       @@ (670434 :> 928534)
       @@ (673562 :> 928263)
       @@ (680731 :> 927638)
       @@ (717032 :> 924372)
       @@ (753815 :> 920894)
       @@ (819939 :> 914221)
       @@ (823536 :> 913843)
       @@ (855797 :> 910377)
       @@ (859111 :> 910014)
       @@ (861064 :> 909799)
       @@ (895414 :> 905947)
       @@ (900731 :> 905338)
       @@ (940454 :> 900679)
       @@ (1065285 :> 884812)
       @@ (1074143 :> 883616)
       @@ (1088762 :> 881623)
       @@ (1175256 :> 869330)
       @@ (1353976 :> 841296)
       @@ (1376726 :> 837482)
       @@ (1477798 :> 819898)
       @@ (1500813 :> 815751)
       @@ (1531077 :> 810219)
       @@ (1846468 :> 747602)),
      (   (-2368093 :> 690652)
       @@ (-2259545 :> 698041)
       @@ (-2196505 :> 701798)
       @@ (-1991161 :> 711262)
       @@ (-1975246 :> 711817)
       @@ (-1933834 :> 713139)
       @@ (-1861875 :> 715020)
       @@ (-1812101 :> 716012)
       @@ (-1708481 :> 717269)
       @@ (-1658220 :> 717487)
       @@ (-1618851 :> 717481)
       @@ (-1593645 :> 717395)
       @@ (-1570692 :> 717262)
       @@ (-1537241 :> 716974)
       @@ (-1506442 :> 716611)
       @@ (-1493244 :> 716427)
       @@ (-1460071 :> 715890)
       @@ (-1387788 :> 714349)
       @@ (-1358702 :> 713587)
       @@ (-1358509 :> 713582)
       @@ (-1343419 :> 713154)
       @@ (-1317581 :> 712373)
       @@ (-1302783 :> 711897)
       @@ (-1292181 :> 711544)
       @@ (-1274127 :> 710918)
       @@ (-1267990 :> 710698)
       @@ (-1227429 :> 709159)
       @@ (-1224993 :> 709062)
       @@ (-1152115 :> 705904)
       @@ (-1142178 :> 705436)
       @@ (-1137338 :> 705205)
       @@ (-1127679 :> 704738)
       @@ (-1070882 :> 701827)
       @@ (-1065099 :> 701515)
       @@ (-1047382 :> 700541)
       @@ (-1044138 :> 700359)
       @@ (-1042040 :> 700241)
       @@ (-1039297 :> 700087)
       @@ (-1021372 :> 699062)
       @@ (-1001511 :> 697894)
       @@ (-988595 :> 697117)
       @@ (-939235 :> 694019)
       @@ (-936798 :> 693861)
       @@ (-924876 :> 693080)
       @@ (-915242 :> 692441)
       @@ (-908186 :> 691968)
       @@ (-903641 :> 691662)
       @@ (-902195 :> 691564)
       @@ (-869046 :> 689273)
       @@ (-839290 :> 687143)
       @@ (-825093 :> 686103)
       @@ (-784691 :> 683057)
       @@ (-728486 :> 678616)
       @@ (-699497 :> 676235)
       @@ (-698154 :> 676123)
       @@ (-665773 :> 673389)
       @@ (-665481 :> 673364)
       @@ (-664240 :> 673258)
       @@ (-660798 :> 672963)
       @@ (-618021 :> 669223)
       @@ (-614273 :> 668889)
       @@ (-598332 :> 667459)
       @@ (-598074 :> 667436)
       @@ (-587982 :> 666521)
       @@ (-587409 :> 666469)
       @@ (-582626 :> 666033)
       @@ (-573244 :> 665174)
       @@ (-537685 :> 661864)
       @@ (-529941 :> 661132)
       @@ (-529625 :> 661102)
       @@ (-521237 :> 660304)
       @@ (-493861 :> 657671)
       @@ (-454684 :> 653821)
       @@ (-430214 :> 651368)
       @@ (-390179 :> 647277)
       @@ (-378840 :> 646101)
       @@ (-347349 :> 642797)
       @@ (-311718 :> 638990)
       @@ (-305614 :> 638331)
       @@ (-288853 :> 636511)
       @@ (-270478 :> 634497)
       @@ (-261305 :> 633486)
       @@ (-243858 :> 631549)
       @@ (-239499 :> 631062)
       @@ (-218418 :> 628696)
       @@ (-156706 :> 621640)
       @@ (-138405 :> 619512)
       @@ (-129473 :> 618467)
       @@ (-96672 :> 614599)
       @@ (-88818 :> 613665)
       @@ (-75886 :> 612121)
       @@ (-43896 :> 608270)
       @@ (0 :> 602913)
       @@ (20072 :> 600436)
       @@ (20573 :> 600374)
       @@ (32672 :> 598873)
       @@ (37583 :> 598262)
       @@ (66627 :> 594627)
       @@ (102849 :> 590048)
       @@ (123719 :> 587386)
       @@ (152983 :> 583626)
       @@ (175249 :> 580744)
       @@ (231759 :> 573352)
       @@ (250732 :> 570845)
       @@ (255214 :> 570251)
       @@ (285041 :> 566282)
       @@ (292483 :> 565288)
       @@ (388921 :> 552243)
       @@ (403749 :> 550212)
       @@ (413492 :> 548875)
       @@ (423957 :> 547436)
       @@ (519324 :> 534184)
       @@ (543040 :> 530853)
       @@ (568617 :> 527245)
       @@ (590215 :> 524187)
       @@ (694430 :> 509286)
       @@ (722340 :> 505257)
       @@ (760206 :> 499768)
       @@ (804714 :> 493284)
       @@ (823699 :> 490508)
       @@ (881790 :> 481978)
       @@ (1098133 :> 449816)
       @@ (1205519 :> 433682)
       @@ (1221949 :> 431206)
       @@ (1227276 :> 430403)
       @@ (1448727 :> 396949)),
      (   (-2054299 :> 1220022)
       @@ (-1972256 :> 1250270)
       @@ (-1843811 :> 1293712)
       @@ (-1762860 :> 1318527)
       @@ (-1674671 :> 1343227)
       @@ (-1607534 :> 1360372)
       @@ (-1556666 :> 1372397)
       @@ (-1536839 :> 1376858)
       @@ (-1465711 :> 1391818)
       @@ (-1331820 :> 1415562)
       @@ (-1292805 :> 1421405)
       @@ (-1262929 :> 1425555)
       @@ (-1228820 :> 1429952)
       @@ (-1210360 :> 1432181)
       @@ (-1203898 :> 1432937)
       @@ (-1184356 :> 1435143)
       @@ (-1175428 :> 1436111)
       @@ (-1122476 :> 1441359)
       @@ (-1028533 :> 1448601)
       @@ (-1022350 :> 1448986)
       @@ (-976637 :> 1451493)
       @@ (-946849 :> 1452804)
       @@ (-942173 :> 1452986)
       @@ (-902596 :> 1454288)
       @@ (-901059 :> 1454329)
       @@ (-900710 :> 1454339)
       @@ (-883041 :> 1454769)
       @@ (-852398 :> 1455311)
       @@ (-797760 :> 1455642)
       @@ (-778265 :> 1455565)
       @@ (-767274 :> 1455477)
       @@ (-756948 :> 1455365)
       @@ (-713611 :> 1454588)
       @@ (-700570 :> 1454259)
       @@ (-686196 :> 1453844)
       @@ (-680389 :> 1453661)
       @@ (-674957 :> 1453482)
       @@ (-641348 :> 1452207)
       @@ (-600315 :> 1450259)
       @@ (-572636 :> 1448704)
       @@ (-557462 :> 1447770)
       @@ (-533826 :> 1446202)
       @@ (-532366 :> 1446100)
       @@ (-529948 :> 1445931)
       @@ (-503907 :> 1444016)
       @@ (-473354 :> 1441557)
       @@ (-471469 :> 1441398)
       @@ (-448414 :> 1439380)
       @@ (-431564 :> 1437823)
       @@ (-408173 :> 1435547)
       @@ (-391219 :> 1433815)
       @@ (-346814 :> 1428949)
       @@ (-297344 :> 1422972)
       @@ (-283590 :> 1421206)
       @@ (-279769 :> 1420708)
       @@ (-274920 :> 1420070)
       @@ (-266887 :> 1419002)
       @@ (-265122 :> 1418765)
       @@ (-263882 :> 1418598)
       @@ (-222036 :> 1412755)
       @@ (-211121 :> 1411163)
       @@ (-192472 :> 1408378)
       @@ (-164107 :> 1403986)
       @@ (-140177 :> 1400134)
       @@ (-127593 :> 1398055)
       @@ (-104272 :> 1394104)
       @@ (-80573 :> 1389961)
       @@ (-66703 :> 1387475)
       @@ (-43242 :> 1383170)
       @@ (-14482 :> 1377720)
       @@ (-4051 :> 1375696)
       @@ (0 :> 1374904)
       @@ (19528 :> 1371031)
       @@ (56200 :> 1363523)
       @@ (82067 :> 1358045)
       @@ (97774 :> 1354645)
       @@ (112147 :> 1351485)
       @@ (114822 :> 1350892)
       @@ (139449 :> 1345356)
       @@ (208926 :> 1329016)
       @@ (210711 :> 1328582)
       @@ (235937 :> 1322378)
       @@ (272460 :> 1313151)
       @@ (287190 :> 1309348)
       @@ (293842 :> 1307616)
       @@ (296150 :> 1307013)
       @@ (376289 :> 1285370)
       @@ (422394 :> 1272314)
       @@ (431599 :> 1269655)
       @@ (433990 :> 1268961)
       @@ (470745 :> 1258157)
       @@ (570284 :> 1227555)
       @@ (599836 :> 1218101)
       @@ (668723 :> 1195428)
       @@ (675371 :> 1193194)
       @@ (706753 :> 1182538)
       @@ (784842 :> 1155266)
       @@ (803655 :> 1148537)
       @@ (806122 :> 1147650)
       @@ (835762 :> 1136915)
       @@ (914835 :> 1107566)
       @@ (963198 :> 1089123)
       @@ (1171497 :> 1005730)
       @@ (1292782 :> 954528)
       @@ (1350367 :> 929633)
       @@ (1508529 :> 859668)),
      (   (-1925687 :> 927991)
       @@ (-1878289 :> 937933)
       @@ (-1857768 :> 942116)
       @@ (-1733503 :> 965803)
       @@ (-1671394 :> 976537)
       @@ (-1474168 :> 1005378)
       @@ (-1455346 :> 1007695)
       @@ (-1425044 :> 1011261)
       @@ (-1355024 :> 1018715)
       @@ (-1339803 :> 1020188)
       @@ (-1318037 :> 1022203)
       @@ (-1300181 :> 1023774)
       @@ (-1285572 :> 1025005)
       @@ (-1254031 :> 1027494)
       @@ (-1167724 :> 1033116)
       @@ (-1037252 :> 1038271)
       @@ (-1035965 :> 1038302)
       @@ (-989241 :> 1039149)
       @@ (-982481 :> 1039229)
       @@ (-957348 :> 1039429)
       @@ (-916228 :> 1039433)
       @@ (-904172 :> 1039358)
       @@ (-903951 :> 1039356)
       @@ (-902394 :> 1039344)
       @@ (-889887 :> 1039224)
       @@ (-885000 :> 1039168)
       @@ (-878135 :> 1039078)
       @@ (-876234 :> 1039052)
       @@ (-862996 :> 1038842)
       @@ (-844042 :> 1038471)
       @@ (-838243 :> 1038340)
       @@ (-829928 :> 1038139)
       @@ (-785845 :> 1036802)
       @@ (-781007 :> 1036628)
       @@ (-778151 :> 1036522)
       @@ (-770207 :> 1036219)
       @@ (-764072 :> 1035974)
       @@ (-749382 :> 1035354)
       @@ (-746201 :> 1035213)
       @@ (-709154 :> 1033400)
       @@ (-648702 :> 1029767)
       @@ (-604634 :> 1026600)
       @@ (-596300 :> 1025952)
       @@ (-575531 :> 1024271)
       @@ (-552860 :> 1022328)
       @@ (-551412 :> 1022200)
       @@ (-529461 :> 1020205)
       @@ (-499216 :> 1017286)
       @@ (-464763 :> 1013723)
       @@ (-459826 :> 1013192)
       @@ (-448991 :> 1012009)
       @@ (-431841 :> 1010086)
       @@ (-427268 :> 1009563)
       @@ (-425499 :> 1009359)
       @@ (-400650 :> 1006433)
       @@ (-391958 :> 1005380)
       @@ (-382846 :> 1004259)
       @@ (-347204 :> 999715)
       @@ (-323778 :> 996591)
       @@ (-279904 :> 990454)
       @@ (-246110 :> 985477)
       @@ (-244297 :> 985204)
       @@ (-237715 :> 984207)
       @@ (-236551 :> 984030)
       @@ (-209187 :> 979796)
       @@ (-204467 :> 979052)
       @@ (-186755 :> 976223)
       @@ (-147709 :> 969791)
       @@ (-115746 :> 964328)
       @@ (-41712 :> 951017)
       @@ (-38072 :> 950339)
       @@ (-17594 :> 946488)
       @@ (-14036 :> 945813)
       @@ (-12233 :> 945469)
       @@ (0 :> 943127)
       @@ (4238 :> 942311)
       @@ (27593 :> 937761)
       @@ (35316 :> 936238)
       @@ (52045 :> 932909)
       @@ (84273 :> 926380)
       @@ (113390 :> 920354)
       @@ (133928 :> 916033)
       @@ (135242 :> 915754)
       @@ (146206 :> 913422)
       @@ (174084 :> 907419)
       @@ (258481 :> 888642)
       @@ (271137 :> 885752)
       @@ (286786 :> 882151)
       @@ (294622 :> 880338)
       @@ (297305 :> 879716)
       @@ (311146 :> 876492)
       @@ (326581 :> 872871)
       @@ (328591 :> 872398)
       @@ (341449 :> 869359)
       @@ (351077 :> 867072)
       @@ (435172 :> 846691)
       @@ (570512 :> 812519)
       @@ (609228 :> 802470)
       @@ (618212 :> 800122)
       @@ (628237 :> 797496)
       @@ (893701 :> 725785)
       @@ (905505 :> 722518)
       @@ (912222 :> 720657)
       @@ (969175 :> 704816)
       @@ (1038132 :> 685512)
       @@ (1324177 :> 604767)),
      (   (-1759564 :> 744065)
       @@ (-1547227 :> 786214)
       @@ (-1493264 :> 796203)
       @@ (-1376994 :> 816642)
       @@ (-1374394 :> 817082)
       @@ (-1327984 :> 824796)
       @@ (-1132681 :> 854408)
       @@ (-1013542 :> 870099)
       @@ (-1011944 :> 870296)
       @@ (-940372 :> 878803)
       @@ (-911370 :> 882053)
       @@ (-856415 :> 887895)
       @@ (-846059 :> 888950)
       @@ (-789045 :> 894486)
       @@ (-773970 :> 895874)
       @@ (-768147 :> 896401)
       @@ (-695682 :> 902564)
       @@ (-694457 :> 902662)
       @@ (-689341 :> 903068)
       @@ (-602554 :> 909381)
       @@ (-585909 :> 910468)
       @@ (-584400 :> 910565)
       @@ (-559341 :> 912119)
       @@ (-555396 :> 912356)
       @@ (-521899 :> 914272)
       @@ (-519282 :> 914415)
       @@ (-502396 :> 915312)
       @@ (-499037 :> 915486)
       @@ (-494836 :> 915700)
       @@ (-487786 :> 916055)
       @@ (-480908 :> 916394)
       @@ (-452192 :> 917733)
       @@ (-431326 :> 918630)
       @@ (-420277 :> 919080)
       @@ (-408982 :> 919520)
       @@ (-342396 :> 921734)
       @@ (-329504 :> 922087)
       @@ (-327786 :> 922132)
       @@ (-293443 :> 922943)
       @@ (-282989 :> 923155)
       @@ (-144659 :> 924432)
       @@ (-134258 :> 924413)
       @@ (-131861 :> 924406)
       @@ (-93586 :> 924183)
       @@ (-90064 :> 924152)
       @@ (-81850 :> 924071)
       @@ (-73223 :> 923976)
       @@ (-58803 :> 923792)
       @@ (-43618 :> 923565)
       @@ (-42898 :> 923553)
       @@ (-41572 :> 923532)
       @@ (-39458 :> 923497)
       @@ (-28448 :> 923304)
       @@ (-7054 :> 922878)
       @@ (-5296 :> 922840)
       @@ (0 :> 922722)
       @@ (13287 :> 922409)
       @@ (17679 :> 922300)
       @@ (19219 :> 922261)
       @@ (25439 :> 922100)
       @@ (28118 :> 922029)
       @@ (42460 :> 921631)
       @@ (43603 :> 921598)
       @@ (78149 :> 920507)
       @@ (79941 :> 920446)
       @@ (80480 :> 920427)
       @@ (81184 :> 920403)
       @@ (81220 :> 920402)
       @@ (93288 :> 919973)
       @@ (107127 :> 919456)
       @@ (121884 :> 918874)
       @@ (125914 :> 918709)
       @@ (158547 :> 917287)
       @@ (185258 :> 916008)
       @@ (248551 :> 912559)
       @@ (302481 :> 909161)
       @@ (327979 :> 907409)
       @@ (350343 :> 905794)
       @@ (366293 :> 904599)
       @@ (379593 :> 903575)
       @@ (390617 :> 902707)
       @@ (398630 :> 902065)
       @@ (400113 :> 901945)
       @@ (400757 :> 901893)
       @@ (408107 :> 901294)
       @@ (417213 :> 900541)
       @@ (445375 :> 898139)
       @@ (458292 :> 896999)
       @@ (481178 :> 894923)
       @@ (483346 :> 894723)
       @@ (502319 :> 892940)
       @@ (518755 :> 891355)
       @@ (520247 :> 891209)
       @@ (533176 :> 889934)
       @@ (537491 :> 889503)
       @@ (565526 :> 886640)
       @@ (588156 :> 884251)
       @@ (600220 :> 882948)
       @@ (607937 :> 882105)
       @@ (615359 :> 881286)
       @@ (635885 :> 878982)
       @@ (660780 :> 876112)
       @@ (670434 :> 874976)
       @@ (673562 :> 874606)
       @@ (680731 :> 873751)
       @@ (753815 :> 864653)
       @@ (819939 :> 855820)
       @@ (823536 :> 855324)
       @@ (855797 :> 850796)
       @@ (859111 :> 850324)
       @@ (861064 :> 850044)
       @@ (895414 :> 845057)
       @@ (900731 :> 844272)
       @@ (940454 :> 838295)
       @@ (1065285 :> 818279)
       @@ (1074143 :> 816789)
       @@ (1088762 :> 814310)
       @@ (1175256 :> 799156)
       @@ (1353976 :> 765327)
       @@ (1376726 :> 760792)
       @@ (1477798 :> 740069)
       @@ (1500813 :> 735223)
       @@ (1531077 :> 728784)
       @@ (1846468 :> 657678)),
      (   (-2299033 :> 911035)
       @@ (-1985286 :> 1069063)
       @@ (-1913853 :> 1103704)
       @@ (-1709154 :> 1198436)
       @@ (-1687332 :> 1208066)
       @@ (-1630467 :> 1232672)
       @@ (-1583407 :> 1252478)
       @@ (-1393192 :> 1326811)
       @@ (-1374523 :> 1333572)
       @@ (-1363582 :> 1337486)
       @@ (-1339213 :> 1346078)
       @@ (-1287098 :> 1363852)
       @@ (-1254102 :> 1374669)
       @@ (-1165067 :> 1402106)
       @@ (-1103106 :> 1419635)
       @@ (-1087369 :> 1423875)
       @@ (-1067945 :> 1428989)
       @@ (-1062990 :> 1430272)
       @@ (-1058165 :> 1431513)
       @@ (-1034630 :> 1437448)
       @@ (-990828 :> 1447958)
       @@ (-989910 :> 1448171)
       @@ (-966355 :> 1453523)
       @@ (-957555 :> 1455470)
       @@ (-936902 :> 1459924)
       @@ (-927299 :> 1461941)
       @@ (-888646 :> 1469702)
       @@ (-858488 :> 1475358)
       @@ (-857929 :> 1475459)
       @@ (-852211 :> 1476491)
       @@ (-841415 :> 1478403)
       @@ (-831555 :> 1480109)
       @@ (-805319 :> 1484462)
       @@ (-781737 :> 1488142)
       @@ (-767228 :> 1490295)
       @@ (-762815 :> 1490933)
       @@ (-745778 :> 1493322)
       @@ (-717336 :> 1497048)
       @@ (-702379 :> 1498875)
       @@ (-641082 :> 1505394)
       @@ (-609940 :> 1508106)
       @@ (-586045 :> 1509910)
       @@ (-563505 :> 1511389)
       @@ (-552561 :> 1512029)
       @@ (-546117 :> 1512382)
       @@ (-545650 :> 1512407)
       @@ (-540693 :> 1512665)
       @@ (-530439 :> 1513167)
       @@ (-508257 :> 1514097)
       @@ (-447460 :> 1515557)
       @@ (-433008 :> 1515668)
       @@ (-421107 :> 1515691)
       @@ (-389470 :> 1515452)
       @@ (-387652 :> 1515425)
       @@ (-372274 :> 1515139)
       @@ (-369285 :> 1515071)
       @@ (-368974 :> 1515064)
       @@ (-363557 :> 1514930)
       @@ (-345457 :> 1514391)
       @@ (-339233 :> 1514172)
       @@ (-330334 :> 1513830)
       @@ (-238493 :> 1508261)
       @@ (-233611 :> 1507862)
       @@ (-226726 :> 1507280)
       @@ (-217718 :> 1506487)
       @@ (-180551 :> 1502838)
       @@ (-179339 :> 1502709)
       @@ (-135330 :> 1497580)
       @@ (-104271 :> 1493451)
       @@ (-94488 :> 1492063)
       @@ (-70935 :> 1488551)
       @@ (-66330 :> 1487836)
       @@ (-66168 :> 1487810)
       @@ (-58688 :> 1486629)
       @@ (-58650 :> 1486623)
       @@ (-2091 :> 1476909)
       @@ (0 :> 1476523)
       @@ (42103 :> 1468365)
       @@ (96161 :> 1456791)
       @@ (113856 :> 1452737)
       @@ (122365 :> 1450742)
       @@ (123628 :> 1450443)
       @@ (130028 :> 1448919)
       @@ (137361 :> 1447152)
       @@ (165298 :> 1440219)
       @@ (215029 :> 1427096)
       @@ (236511 :> 1421122)
       @@ (252333 :> 1416606)
       @@ (255387 :> 1415723)
       @@ (311354 :> 1398905)
       @@ (336176 :> 1391064)
       @@ (361949 :> 1382681)
       @@ (383935 :> 1375338)
       @@ (421762 :> 1362296)
       @@ (425664 :> 1360921)
       @@ (432036 :> 1358666)
       @@ (520382 :> 1325967)
       @@ (660404 :> 1269044)
       @@ (663738 :> 1267619)
       @@ (708840 :> 1248029)
       @@ (736069 :> 1235941)
       @@ (865568 :> 1175985)
       @@ (901744 :> 1158580)
       @@ (997537 :> 1111310)
       @@ (1075705 :> 1071654)
       @@ (1359644 :> 922554))>>

\* compute_posterior's quadrature.  GridPosterior[n][key] is <<posterior mean,
\* posterior sd, normalizing_constant, trapezoid integral of the density
\* returned>> for the response list key, given as (item, category read by the
\* likelihood) pairs in order of administration, whose last item is n.  The
\* last two are in units of 1e-8.
GridPosterior ==
    <<(   (<<<<1, 0>>>> :> <<-773970, 914322, 228524947, 100000000>>)
       @@ (<<<<1, 3>>>> :> <<107127, 828379, 205601363, 100000000>>)
       @@ (<<<<1, 6>>>> :> <<900731, 938238, 235775585, 100000000>>)
       @@ (<<<<7, 3>>, <<1, 3>>>> :> <<28118, 751372, 186432683, 100000000>>)
       @@ (<<<<7, 6>>, <<1, 3>>>> :> <<533176, 793555, 197094168, 100000000>>)
       @@ (<<<<7, 3>>, <<7, 3>>, <<1, 3>>>> :> <<-28448, 691197, 171531091, 100000000>>)
       @@ (<<<<7, 3>>, <<7, 6>>, <<1, 3>>>> :> <<390617, 728121, 180847058, 100000000>>)
       @@ (<<<<7, 6>>, <<7, 3>>, <<1, 3>>>> :> <<390617, 728121, 180847058, 100000000>>)
       @@ (<<<<7, 6>>, <<7, 6>>, <<1, 3>>>> :> <<895414, 760798, 189159735, 100000000>>)),
      (   (<<<<2, 0>>>> :> <<-1302783, 922989, 233458732, 100000000>>)
       @@ (<<<<2, 3>>>> :> <<-660798, 777391, 191766932, 100000000>>)
       @@ (<<<<2, 6>>>> :> <<804714, 843284, 207667937, 100000000>>)
       @@ (<<<<14, 3>>, <<2, 3>>>> :> <<-825093, 669049, 164658883, 100000000>>)
       @@ (<<<<14, 6>>, <<2, 3>>>> :> <<-88818, 780209, 195702668, 100000000>>)
       @@ (<<<<14, 3>>, <<14, 3>>, <<2, 3>>>> :> <<-924876, 594353, 146473153, 100000000>>)
       @@ (<<<<14, 3>>, <<14, 6>>, <<2, 3>>>> :> <<-378840, 680499, 169160477, 100000000>>)
       @@ (<<<<14, 6>>, <<14, 3>>, <<2, 3>>>> :> <<-378840, 680499, 169160477, 100000000>>)
       @@ (<<<<14, 6>>, <<14, 6>>, <<2, 3>>>> :> <<413492, 754739, 189929564, 100000000>>)),
      (   (<<<<22, 0>>, <<3, 0>>>> :> <<-1425044, 885586, 222583373, 100000000>>)
       @@ (<<<<22, 0>>, <<3, 3>>>> :> <<-764072, 826097, 205903647, 100000000>>)
       @@ (<<<<22, 0>>, <<3, 6>>>> :> <<-115746, 914067, 229664875, 100000000>>)
       @@ (<<<<22, 3>>, <<3, 0>>>> :> <<-829928, 827710, 206162969, 100000000>>)
       @@ (<<<<22, 3>>, <<3, 3>>>> :> <<-347204, 763083, 189400679, 100000000>>)
       @@ (<<<<22, 3>>, <<3, 6>>>> :> <<258481, 830181, 207337674, 100000000>>)
       @@ (<<<<22, 6>>, <<3, 0>>>> :> <<-147709, 912984, 228886132, 100000000>>)
       @@ (<<<<22, 6>>, <<3, 3>>>> :> <<286786, 822024, 204856844, 100000000>>)
       @@ (<<<<22, 6>>, <<3, 6>>>> :> <<1038132, 855124, 213006431, 100000000>>)),
      (   (<<<<4, 0>>>> :> <<-718606, 895682, 222901956, 100000000>>)
       @@ (<<<<4, 3>>>> :> <<239183, 815458, 201914955, 100000000>>)
       @@ (<<<<4, 6>>>> :> <<924000, 926379, 232549681, 100000000>>)),
      (   (<<<<21, 0>>, <<9, 0>>, <<13, 0>>, <<5, 3>>>> :> <<-1972256, 742608, 185934538, 100000000>>)
       @@ (<<<<21, 0>>, <<9, 0>>, <<13, 0>>, <<5, 6>>>> :> <<-1762860, 780937, 194966861, 100000000>>)
       @@ (<<<<21, 0>>, <<9, 0>>, <<13, 3>>, <<5, 0>>>> :> <<-1843811, 733404, 183135970, 100000000>>)
       @@ (<<<<21, 0>>, <<9, 0>>, <<13, 3>>, <<5, 3>>>> :> <<-1556666, 730557, 182096202, 100000000>>)
       @@ (<<<<21, 0>>, <<9, 0>>, <<13, 3>>, <<5, 6>>>> :> <<-1331820, 763278, 190402049, 100000000>>)
       @@ (<<<<21, 0>>, <<9, 0>>, <<13, 6>>, <<5, 3>>>> :> <<-1184356, 794828, 199056918, 100000000>>)
       @@ (<<<<21, 0>>, <<9, 3>>, <<13, 0>>, <<5, 0>>>> :> <<-1536839, 739240, 184758301, 100000000>>)
       @@ (<<<<21, 0>>, <<9, 3>>, <<13, 0>>, <<5, 3>>>> :> <<-1262929, 724610, 180725712, 100000000>>)
       @@ (<<<<21, 0>>, <<9, 3>>, <<13, 0>>, <<5, 6>>>> :> <<-1028533, 749001, 186732110, 100000000>>)
       @@ (<<<<21, 0>>, <<9, 3>>, <<13, 3>>, <<5, 0>>>> :> <<-1175428, 704956, 175506065, 100000000>>)
       @@ (<<<<21, 0>>, <<9, 3>>, <<13, 3>>, <<5, 3>>>> :> <<-942173, 690471, 171816039, 100000000>>)
       @@ (<<<<21, 0>>, <<9, 3>>, <<13, 3>>, <<5, 6>>>> :> <<-713611, 712346, 177207594, 100000000>>)
       @@ (<<<<21, 0>>, <<9, 3>>, <<13, 6>>, <<5, 0>>>> :> <<-797760, 747850, 186383290, 100000000>>)
       @@ (<<<<21, 0>>, <<9, 3>>, <<13, 6>>, <<5, 3>>>> :> <<-557462, 730101, 181847534, 100000000>>)
       @@ (<<<<21, 0>>, <<9, 3>>, <<13, 6>>, <<5, 6>>>> :> <<-279769, 754860, 187986544, 100000000>>)
       @@ (<<<<21, 0>>, <<9, 6>>, <<13, 0>>, <<5, 3>>>> :> <<-778265, 830783, 209325755, 100000000>>)
       @@ (<<<<21, 0>>, <<9, 6>>, <<13, 3>>, <<5, 0>>>> :> <<-700570, 803018, 201669985, 100000000>>)
       @@ (<<<<21, 0>>, <<9, 6>>, <<13, 3>>, <<5, 3>>>> :> <<-431564, 782608, 196490686, 100000000>>)
       @@ (<<<<21, 0>>, <<9, 6>>, <<13, 3>>, <<5, 6>>>> :> <<-104272, 809242, 203380750, 100000000>>)
       @@ (<<<<21, 0>>, <<9, 6>>, <<13, 6>>, <<5, 3>>>> :> <<114822, 818119, 205418378, 100000000>>)
       @@ (<<<<21, 3>>, <<9, 0>>, <<13, 0>>, <<5, 0>>>> :> <<-1465711, 727987, 181520140, 100000000>>)
       @@ (<<<<21, 3>>, <<9, 0>>, <<13, 0>>, <<5, 3>>>> :> <<-1203898, 710549, 176721750, 100000000>>)
       @@ (<<<<21, 3>>, <<9, 0>>, <<13, 0>>, <<5, 6>>>> :> <<-976637, 731867, 181706905, 100000000>>)
       @@ (<<<<21, 3>>, <<9, 0>>, <<13, 3>>, <<5, 0>>>> :> <<-1122476, 690898, 171543635, 100000000>>)
       @@ (<<<<21, 3>>, <<9, 0>>, <<13, 3>>, <<5, 3>>>> :> <<-900710, 675817, 167662122, 100000000>>)
       @@ (<<<<21, 3>>, <<9, 0>>, <<13, 3>>, <<5, 6>>>> :> <<-680389, 696093, 172561398, 100000000>>)
       @@ (<<<<21, 3>>, <<9, 0>>, <<13, 6>>, <<5, 0>>>> :> <<-756948, 729471, 181060566, 100000000>>)
       @@ (<<<<21, 3>>, <<9, 0>>, <<13, 6>>, <<5, 3>>>> :> <<-529948, 712772, 176866000, 100000000>>)
       @@ (<<<<21, 3>>, <<9, 0>>, <<13, 6>>, <<5, 6>>>> :> <<-263882, 737350, 183051689, 100000000>>)
       @@ (<<<<21, 3>>, <<9, 3>>, <<13, 0>>, <<5, 0>>>> :> <<-883041, 667465, 165045563, 100000000>>)
       @@ (<<<<21, 3>>, <<9, 3>>, <<13, 0>>, <<5, 3>>>> :> <<-686196, 651406, 161135296, 100000000>>)
       @@ (<<<<21, 3>>, <<9, 3>>, <<13, 0>>, <<5, 6>>>> :> <<-473354, 668322, 165206640, 100000000>>)
       @@ (<<<<21, 3>>, <<9, 3>>, <<13, 3>>, <<5, 0>>>> :> <<-641348, 635584, 157195838, 100000000>>)
       @@ (<<<<21, 3>>, <<9, 3>>, <<13, 3>>, <<5, 3>>>> :> <<-471469, 624304, 154511053, 100000000>>)
       @@ (<<<<21, 3>>, <<9, 3>>, <<13, 3>>, <<5, 6>>>> :> <<-266887, 642337, 158871560, 100000000>>)
       @@ (<<<<21, 3>>, <<9, 3>>, <<13, 6>>, <<5, 0>>>> :> <<-297344, 664671, 164371975, 100000000>>)
       @@ (<<<<21, 3>>, <<9, 3>>, <<13, 6>>, <<5, 3>>>> :> <<-127593, 653793, 161852812, 100000000>>)
       @@ (<<<<21, 3>>, <<9, 3>>, <<13, 6>>, <<5, 6>>>> :> <<112147, 676386, 167594582, 100000000>>)
       @@ (<<<<21, 3>>, <<9, 6>>, <<13, 0>>, <<5, 0>>>> :> <<-408173, 742959, 184494739, 100000000>>)
       @@ (<<<<21, 3>>, <<9, 6>>, <<13, 0>>, <<5, 3>>>> :> <<-192472, 724184, 180069023, 100000000>>)
       @@ (<<<<21, 3>>, <<9, 6>>, <<13, 0>>, <<5, 6>>>> :> <<97774, 746821, 186039518, 100000000>>)
       @@ (<<<<21, 3>>, <<9, 6>>, <<13, 3>>, <<5, 0>>>> :> <<-164107, 705763, 175346824, 100000000>>)
       @@ (<<<<21, 3>>, <<9, 6>>, <<13, 3>>, <<5, 3>>>> :> <<19528, 692069, 172203180, 100000000>>)
       @@ (<<<<21, 3>>, <<9, 6>>, <<13, 3>>, <<5, 6>>>> :> <<293842, 714839, 178125227, 100000000>>)
       @@ (<<<<21, 3>>, <<9, 6>>, <<13, 6>>, <<5, 0>>>> :> <<296150, 736998, 183699993, 100000000>>)
       @@ (<<<<21, 3>>, <<9, 6>>, <<13, 6>>, <<5, 3>>>> :> <<470745, 720995, 179839234, 100000000>>)
       @@ (<<<<21, 3>>, <<9, 6>>, <<13, 6>>, <<5, 6>>>> :> <<784842, 742208, 185395950, 100000000>>)
       @@ (<<<<21, 6>>, <<9, 0>>, <<13, 0>>, <<5, 3>>>> :> <<-600315, 833600, 210258099, 100000000>>)
       @@ (<<<<21, 6>>, <<9, 0>>, <<13, 3>>, <<5, 0>>>> :> <<-533826, 804723, 202231640, 100000000>>)
       @@ (<<<<21, 6>>, <<9, 0>>, <<13, 3>>, <<5, 3>>>> :> <<-274920, 780196, 195892903, 100000000>>)
       @@ (<<<<21, 6>>, <<9, 0>>, <<13, 3>>, <<5, 6>>>> :> <<56200, 801126, 201046524, 100000000>>)
       @@ (<<<<21, 6>>, <<9, 0>>, <<13, 6>>, <<5, 3>>>> :> <<272460, 804409, 201289377, 100000000>>)
       @@ (<<<<21, 6>>, <<9, 3>>, <<13, 0>>, <<5, 0>>>> :> <<-283590, 758384, 189071357, 100000000>>)
       @@ (<<<<21, 6>>, <<9, 3>>, <<13, 0>>, <<5, 3>>>> :> <<-66703, 735472, 183343101, 100000000>>)
       @@ (<<<<21, 6>>, <<9, 3>>, <<13, 0>>, <<5, 6>>>> :> <<235937, 753050, 187784956, 100000000>>)
       @@ (<<<<21, 6>>, <<9, 3>>, <<13, 3>>, <<5, 0>>>> :> <<-43242, 716650, 178550717, 100000000>>)
       @@ (<<<<21, 6>>, <<9, 3>>, <<13, 3>>, <<5, 3>>>> :> <<139449, 699742, 174412749, 100000000>>)
       @@ (<<<<21, 6>>, <<9, 3>>, <<13, 3>>, <<5, 6>>>> :> <<422394, 718109, 179045049, 100000000>>)
       @@ (<<<<21, 6>>, <<9, 3>>, <<13, 6>>, <<5, 0>>>> :> <<431599, 738839, 184038010, 100000000>>)
       @@ (<<<<21, 6>>, <<9, 3>>, <<13, 6>>, <<5, 3>>>> :> <<599836, 720115, 179363793, 100000000>>)
       @@ (<<<<21, 6>>, <<9, 3>>, <<13, 6>>, <<5, 6>>>> :> <<914835, 736250, 183256956, 100000000>>)
       @@ (<<<<21, 6>>, <<9, 6>>, <<13, 0>>, <<5, 3>>>> :> <<675371, 780830, 194088002, 100000000>>)
       @@ (<<<<21, 6>>, <<9, 6>>, <<13, 3>>, <<5, 0>>>> :> <<668723, 765344, 190537354, 100000000>>)
       @@ (<<<<21, 6>>, <<9, 6>>, <<13, 3>>, <<5, 3>>>> :> <<835762, 740700, 184233388, 100000000>>)
       @@ (<<<<21, 6>>, <<9, 6>>, <<13, 3>>, <<5, 6>>>> :> <<1171497, 747870, 185549910, 100000000>>)
       @@ (<<<<21, 6>>, <<9, 6>>, <<13, 6>>, <<5, 3>>>> :> <<1350367, 737942, 182752831, 100000000>>)),
      (   (<<<<18, 0>>, <<12, 0>>, <<24, 0>>, <<6, 0>>>> :> <<-2299033, 659556, 165962253, 100000000>>)
       @@ (<<<<18, 0>>, <<12, 0>>, <<24, 0>>, <<6, 3>>>> :> <<-1913853, 642179, 158794750, 100000000>>)
       @@ (<<<<18, 0>>, <<12, 0>>, <<24, 3>>, <<6, 0>>>> :> <<-1687332, 666607, 165576010, 100000000>>)
       @@ (<<<<18, 0>>, <<12, 0>>, <<24, 3>>, <<6, 3>>>> :> <<-1363582, 631863, 156740866, 100000000>>)
       @@ (<<<<18, 0>>, <<12, 0>>, <<24, 3>>, <<6, 6>>>> :> <<-989910, 674763, 167925398, 100000000>>)
       @@ (<<<<18, 0>>, <<12, 0>>, <<24, 6>>, <<6, 3>>>> :> <<-1087369, 702463, 174806360, 100000000>>)
       @@ (<<<<18, 0>>, <<12, 3>>, <<24, 0>>, <<6, 0>>>> :> <<-1709154, 655075, 162278793, 100000000>>)
       @@ (<<<<18, 0>>, <<12, 3>>, <<24, 0>>, <<6, 3>>>> :> <<-1393192, 621737, 153900456, 100000000>>)
       @@ (<<<<18, 0>>, <<12, 3>>, <<24, 0>>, <<6, 6>>>> :> <<-1034630, 664839, 164968226, 100000000>>)
       @@ (<<<<18, 0>>, <<12, 3>>, <<24, 3>>, <<6, 0>>>> :> <<-1165067, 627411, 155629286, 100000000>>)
       @@ (<<<<18, 0>>, <<12, 3>>, <<24, 3>>, <<6, 3>>>> :> <<-927299, 594394, 147393925, 100000000>>)
       @@ (<<<<18, 0>>, <<12, 3>>, <<24, 3>>, <<6, 6>>>> :> <<-563505, 624258, 154809945, 100000000>>)
       @@ (<<<<18, 0>>, <<12, 3>>, <<24, 6>>, <<6, 0>>>> :> <<-858488, 692446, 172402687, 100000000>>)
       @@ (<<<<18, 0>>, <<12, 3>>, <<24, 6>>, <<6, 3>>>> :> <<-609940, 656092, 163303960, 100000000>>)
       @@ (<<<<18, 0>>, <<12, 3>>, <<24, 6>>, <<6, 6>>>> :> <<-135330, 692676, 172830234, 100000000>>)
       @@ (<<<<18, 0>>, <<12, 6>>, <<24, 0>>, <<6, 3>>>> :> <<-1058165, 697538, 173504330, 100000000>>)
       @@ (<<<<18, 0>>, <<12, 6>>, <<24, 3>>, <<6, 0>>>> :> <<-781737, 694671, 173196495, 100000000>>)
       @@ (<<<<18, 0>>, <<12, 6>>, <<24, 3>>, <<6, 3>>>> :> <<-540693, 655954, 163393032, 100000000>>)
       @@ (<<<<18, 0>>, <<12, 6>>, <<24, 3>>, <<6, 6>>>> :> <<-66330, 686380, 170993924, 100000000>>)
       @@ (<<<<18, 0>>, <<12, 6>>, <<24, 6>>, <<6, 3>>>> :> <<-58650, 729564, 183117570, 100000000>>)
       @@ (<<<<18, 3>>, <<24, 0>>, <<12, 0>>, <<6, 0>>>> :> <<-1583407, 649034, 161294781, 100000000>>)
       @@ (<<<<18, 3>>, <<24, 0>>, <<12, 0>>, <<6, 3>>>> :> <<-1287098, 610273, 151073162, 100000000>>)
       @@ (<<<<18, 3>>, <<24, 0>>, <<12, 0>>, <<6, 6>>>> :> <<-936902, 643505, 158918828, 100000000>>)
       @@ (<<<<18, 3>>, <<24, 0>>, <<12, 3>>, <<6, 0>>>> :> <<-1103106, 602025, 148614388, 100000000>>)
       @@ (<<<<18, 3>>, <<24, 0>>, <<12, 3>>, <<6, 3>>>> :> <<-888646, 570452, 140790318, 100000000>>)
       @@ (<<<<18, 3>>, <<24, 0>>, <<12, 3>>, <<6, 6>>>> :> <<-552561, 597254, 147240268, 100000000>>)
       @@ (<<<<18, 3>>, <<24, 0>>, <<12, 6>>, <<6, 0>>>> :> <<-745778, 659651, 162911706, 100000000>>)
       @@ (<<<<18, 3>>, <<24, 0>>, <<12, 6>>, <<6, 3>>>> :> <<-530439, 626087, 154729299, 100000000>>)
       @@ (<<<<18, 3>>, <<24, 0>>, <<12, 6>>, <<6, 6>>>> :> <<-94488, 660538, 163763891, 100000000>>)
       @@ (<<<<18, 3>>, <<24, 3>>, <<12, 0>>, <<6, 0>>>> :> <<-1067945, 609167, 150475186, 100000000>>)
       @@ (<<<<18, 3>>, <<24, 3>>, <<12, 0>>, <<6, 3>>>> :> <<-852211, 575880, 142193587, 100000000>>)
       @@ (<<<<18, 3>>, <<24, 3>>, <<12, 0>>, <<6, 6>>>> :> <<-508257, 600986, 148245336, 100000000>>)
       @@ (<<<<18, 3>>, <<24, 3>>, <<12, 3>>, <<6, 0>>>> :> <<-702379, 562056, 138442097, 100000000>>)
       @@ (<<<<18, 3>>, <<24, 3>>, <<12, 3>>, <<6, 3>>>> :> <<-545650, 539266, 133038151, 100000000>>)
       @@ (<<<<18, 3>>, <<24, 3>>, <<12, 3>>, <<6, 6>>>> :> <<-226726, 562965, 138836878, 100000000>>)
       @@ (<<<<18, 3>>, <<24, 3>>, <<12, 6>>, <<6, 0>>>> :> <<-330334, 610026, 150525422, 100000000>>)
       @@ (<<<<18, 3>>, <<24, 3>>, <<12, 6>>, <<6, 3>>>> :> <<-180551, 586848, 145080581, 100000000>>)
       @@ (<<<<18, 3>>, <<24, 3>>, <<12, 6>>, <<6, 6>>>> :> <<215029, 615466, 152451159, 100000000>>)
       @@ (<<<<18, 3>>, <<24, 6>>, <<12, 0>>, <<6, 0>>>> :> <<-767228, 665470, 164433855, 100000000>>)
       @@ (<<<<18, 3>>, <<24, 6>>, <<12, 0>>, <<6, 3>>>> :> <<-546117, 630916, 155997334, 100000000>>)
       @@ (<<<<18, 3>>, <<24, 6>>, <<12, 0>>, <<6, 6>>>> :> <<-104271, 665760, 165062171, 100000000>>)
       @@ (<<<<18, 3>>, <<24, 6>>, <<12, 3>>, <<6, 0>>>> :> <<-389470, 612339, 151109799, 100000000>>)
       @@ (<<<<18, 3>>, <<24, 6>>, <<12, 3>>, <<6, 3>>>> :> <<-233611, 589294, 145608554, 100000000>>)
       @@ (<<<<18, 3>>, <<24, 6>>, <<12, 3>>, <<6, 6>>>> :> <<165298, 620616, 153847864, 100000000>>)
       @@ (<<<<18, 3>>, <<24, 6>>, <<12, 6>>, <<6, 0>>>> :> <<113856, 671438, 166855957, 100000000>>)
       @@ (<<<<18, 3>>, <<24, 6>>, <<12, 6>>, <<6, 3>>>> :> <<252333, 646149, 160705289, 100000000>>)
       @@ (<<<<18, 3>>, <<24, 6>>, <<12, 6>>, <<6, 6>>>> :> <<736069, 671354, 167036687, 100000000>>)
       @@ (<<<<18, 6>>, <<24, 0>>, <<12, 0>>, <<6, 3>>>> :> <<-857929, 707984, 177284102, 100000000>>)
       @@ (<<<<18, 6>>, <<24, 0>>, <<12, 3>>, <<6, 0>>>> :> <<-641082, 686066, 170822552, 100000000>>)
       @@ (<<<<18, 6>>, <<24, 0>>, <<12, 3>>, <<6, 3>>>> :> <<-421107, 646585, 160719333, 100000000>>)
       @@ (<<<<18, 6>>, <<24, 0>>, <<12, 3>>, <<6, 6>>>> :> <<42103, 670962, 166248291, 100000000>>)
       @@ (<<<<18, 6>>, <<24, 0>>, <<12, 6>>, <<6, 3>>>> :> <<130028, 701711, 174192736, 100000000>>)
       @@ (<<<<18, 6>>, <<24, 3>>, <<12, 0>>, <<6, 0>>>> :> <<-586045, 690831, 171969191, 100000000>>)
       @@ (<<<<18, 6>>, <<24, 3>>, <<12, 0>>, <<6, 3>>>> :> <<-369285, 648892, 161225509, 100000000>>)
       @@ (<<<<18, 6>>, <<24, 3>>, <<12, 0>>, <<6, 6>>>> :> <<96161, 668518, 165319793, 100000000>>)
       @@ (<<<<18, 6>>, <<24, 3>>, <<12, 3>>, <<6, 0>>>> :> <<-217718, 623659, 154225367, 100000000>>)
       @@ (<<<<18, 6>>, <<24, 3>>, <<12, 3>>, <<6, 3>>>> :> <<-70935, 597184, 147807294, 100000000>>)
       @@ (<<<<18, 6>>, <<24, 3>>, <<12, 3>>, <<6, 6>>>> :> <<336176, 618619, 152754611, 100000000>>)
       @@ (<<<<18, 6>>, <<24, 3>>, <<12, 6>>, <<6, 0>>>> :> <<311354, 665555, 164232189, 100000000>>)
       @@ (<<<<18, 6>>, <<24, 3>>, <<12, 6>>, <<6, 3>>>> :> <<432036, 639842, 158095448, 100000000>>)
       @@ (<<<<18, 6>>, <<24, 3>>, <<12, 6>>, <<6, 6>>>> :> <<901744, 659212, 162643261, 100000000>>)
       @@ (<<<<18, 6>>, <<24, 6>>, <<12, 0>>, <<6, 3>>>> :> <<122365, 707831, 175806579, 100000000>>)
       @@ (<<<<18, 6>>, <<24, 6>>, <<12, 3>>, <<6, 0>>>> :> <<255387, 675027, 166941635, 100000000>>)
       @@ (<<<<18, 6>>, <<24, 6>>, <<12, 3>>, <<6, 3>>>> :> <<383935, 647884, 160388294, 100000000>>)
       @@ (<<<<18, 6>>, <<24, 6>>, <<12, 3>>, <<6, 6>>>> :> <<865568, 667507, 164883347, 100000000>>)
       @@ (<<<<18, 6>>, <<24, 6>>, <<12, 6>>, <<6, 3>>>> :> <<997537, 681652, 168177582, 100000000>>)),
      (   (<<<<7, 3>>>> :> <<-81850, 875818, 218250108, 100000000>>)
       @@ (<<<<7, 6>>>> :> <<607937, 941647, 235801964, 100000000>>)
       @@ (<<<<1, 3>>, <<7, 3>>>> :> <<28118, 751372, 186432683, 100000000>>)
       @@ (<<<<1, 3>>, <<7, 6>>>> :> <<533176, 793555, 197094168, 100000000>>)
       @@ (<<<<7, 3>>, <<7, 3>>>> :> <<-134258, 785732, 195316646, 100000000>>)
       @@ (<<<<7, 3>>, <<7, 6>>>> :> <<408107, 843113, 210440140, 100000000>>)
       @@ (<<<<7, 6>>, <<7, 3>>>> :> <<408107, 843113, 210440140, 100000000>>)
       @@ (<<<<7, 6>>, <<7, 6>>>> :> <<1088762, 879051, 219657383, 100000000>>)
       @@ (<<<<1, 3>>, <<7, 3>>, <<7, 3>>>> :> <<-28448, 691197, 171531091, 100000000>>)
       @@ (<<<<1, 3>>, <<7, 3>>, <<7, 6>>>> :> <<390617, 728121, 180847058, 100000000>>)
       @@ (<<<<1, 3>>, <<7, 6>>, <<7, 3>>>> :> <<390617, 728121, 180847058, 100000000>>)
       @@ (<<<<1, 3>>, <<7, 6>>, <<7, 6>>>> :> <<895414, 760798, 189159735, 100000000>>)
       @@ (<<<<1, 3>>, <<19, 3>>, <<7, 3>>>> :> <<19219, 671413, 166436413, 100000000>>)
       @@ (<<<<1, 3>>, <<19, 3>>, <<7, 6>>>> :> <<417213, 704767, 174814965, 100000000>>)
       @@ (<<<<7, 3>>, <<1, 3>>, <<7, 3>>>> :> <<-28448, 691197, 171531091, 100000000>>)
       @@ (<<<<7, 3>>, <<1, 3>>, <<7, 6>>>> :> <<390617, 728121, 180847058, 100000000>>)
       @@ (<<<<7, 6>>, <<1, 3>>, <<7, 3>>>> :> <<390617, 728121, 180847058, 100000000>>)
       @@ (<<<<7, 6>>, <<1, 3>>, <<7, 6>>>> :> <<895414, 760798, 189159735, 100000000>>)
       @@ (<<<<1, 0>>, <<19, 0>>, <<23, 0>>, <<7, 3>>>> :> <<-1547227, 728195, 181373097, 100000000>>)
       @@ (<<<<1, 0>>, <<19, 0>>, <<23, 3>>, <<7, 0>>>> :> <<-1493264, 734571, 183223485, 100000000>>)
       @@ (<<<<1, 0>>, <<19, 0>>, <<23, 3>>, <<7, 3>>>> :> <<-1013542, 706012, 175835444, 100000000>>)
       @@ (<<<<1, 0>>, <<19, 0>>, <<23, 3>>, <<7, 6>>>> :> <<-694457, 757221, 189020201, 100000000>>)
       @@ (<<<<1, 0>>, <<19, 0>>, <<23, 6>>, <<7, 3>>>> :> <<-695682, 767660, 191794866, 100000000>>)
       @@ (<<<<1, 0>>, <<19, 3>>, <<23, 0>>, <<7, 0>>>> :> <<-1376994, 733820, 183004364, 100000000>>)
       @@ (<<<<1, 0>>, <<19, 3>>, <<23, 0>>, <<7, 3>>>> :> <<-911370, 700052, 174255897, 100000000>>)
       @@ (<<<<1, 0>>, <<19, 3>>, <<23, 0>>, <<7, 6>>>> :> <<-585909, 747974, 186578254, 100000000>>)
       @@ (<<<<1, 0>>, <<19, 3>>, <<23, 3>>, <<7, 0>>>> :> <<-856415, 700370, 174367334, 100000000>>)
       @@ (<<<<1, 0>>, <<19, 3>>, <<23, 3>>, <<7, 3>>>> :> <<-480908, 661354, 164377257, 100000000>>)
       @@ (<<<<1, 0>>, <<19, 3>>, <<23, 3>>, <<7, 6>>>> :> <<-144659, 699516, 173990373, 100000000>>)
       @@ (<<<<1, 0>>, <<19, 3>>, <<23, 6>>, <<7, 0>>>> :> <<-521899, 756502, 188858066, 100000000>>)
       @@ (<<<<1, 0>>, <<19, 3>>, <<23, 6>>, <<7, 3>>>> :> <<-131861, 709613, 176696894, 100000000>>)
       @@ (<<<<1, 0>>, <<19, 3>>, <<23, 6>>, <<7, 6>>>> :> <<302481, 752505, 187796446, 100000000>>)
       @@ (<<<<1, 0>>, <<19, 6>>, <<23, 0>>, <<7, 3>>>> :> <<-559341, 773970, 193356393, 100000000>>)
       @@ (<<<<1, 0>>, <<19, 6>>, <<23, 3>>, <<7, 0>>>> :> <<-494836, 771938, 192805228, 100000000>>)
       @@ (<<<<1, 0>>, <<19, 6>>, <<23, 3>>, <<7, 3>>>> :> <<-93586, 724716, 180658994, 100000000>>)
       @@ (<<<<1, 0>>, <<19, 6>>, <<23, 3>>, <<7, 6>>>> :> <<366293, 770504, 192804153, 100000000>>)
       @@ (<<<<1, 0>>, <<19, 6>>, <<23, 6>>, <<7, 3>>>> :> <<398630, 782529, 196171080, 100000000>>)
       @@ (<<<<1, 3>>, <<7, 3>>, <<19, 3>>, <<7, 3>>>> :> <<-26864, 626793, 155503568, 100000000>>)
       @@ (<<<<1, 3>>, <<7, 3>>, <<19, 3>>, <<7, 6>>>> :> <<314010, 655665, 162725605, 100000000>>)
       @@ (<<<<1, 3>>, <<7, 6>>, <<19, 3>>, <<7, 3>>>> :> <<314010, 655665, 162725605, 100000000>>)
       @@ (<<<<1, 3>>, <<7, 6>>, <<19, 3>>, <<7, 6>>>> :> <<717032, 685161, 170177317, 100000000>>)
       @@ (<<<<1, 3>>, <<19, 0>>, <<23, 0>>, <<7, 0>>>> :> <<-1327984, 752988, 188588356, 100000000>>)
       @@ (<<<<1, 3>>, <<19, 0>>, <<23, 0>>, <<7, 3>>>> :> <<-846059, 714386, 178294147, 100000000>>)
       @@ (<<<<1, 3>>, <<19, 0>>, <<23, 0>>, <<7, 6>>>> :> <<-499037, 760816, 190187306, 100000000>>)
       @@ (<<<<1, 3>>, <<19, 0>>, <<23, 3>>, <<7, 0>>>> :> <<-789045, 713796, 178045456, 100000000>>)
       @@ (<<<<1, 3>>, <<19, 0>>, <<23, 3>>, <<7, 3>>>> :> <<-408982, 669180, 166418519, 100000000>>)
       @@ (<<<<1, 3>>, <<19, 0>>, <<23, 3>>, <<7, 6>>>> :> <<-58803, 703858, 175037542, 100000000>>)
       @@ (<<<<1, 3>>, <<19, 0>>, <<23, 6>>, <<7, 0>>>> :> <<-431326, 768342, 192081633, 100000000>>)
       @@ (<<<<1, 3>>, <<19, 0>>, <<23, 6>>, <<7, 3>>>> :> <<-43618, 713980, 177810295, 100000000>>)
       @@ (<<<<1, 3>>, <<19, 0>>, <<23, 6>>, <<7, 6>>>> :> <<400757, 749589, 186714712, 100000000>>)
       @@ (<<<<1, 3>>, <<19, 3>>, <<7, 3>>, <<7, 3>>>> :> <<-26864, 626793, 155503568, 100000000>>)
       @@ (<<<<1, 3>>, <<19, 3>>, <<7, 3>>, <<7, 6>>>> :> <<314010, 655665, 162725605, 100000000>>)
       @@ (<<<<1, 3>>, <<19, 3>>, <<7, 6>>, <<7, 3>>>> :> <<314010, 655665, 162725605, 100000000>>)
       @@ (<<<<1, 3>>, <<19, 3>>, <<7, 6>>, <<7, 6>>>> :> <<717032, 685161, 170177317, 100000000>>)
       @@ (<<<<1, 3>>, <<19, 3>>, <<23, 0>>, <<7, 0>>>> :> <<-689341, 704042, 175340064, 100000000>>)
       @@ (<<<<1, 3>>, <<19, 3>>, <<23, 0>>, <<7, 3>>>> :> <<-329504, 659225, 163793219, 100000000>>)
       @@ (<<<<1, 3>>, <<19, 3>>, <<23, 0>>, <<7, 6>>>> :> <<17679, 691528, 171775967, 100000000>>)
       @@ (<<<<1, 3>>, <<19, 3>>, <<23, 3>>, <<7, 0>>>> :> <<-282989, 655215, 162595138, 100000000>>)
       @@ (<<<<1, 3>>, <<19, 3>>, <<23, 3>>, <<7, 3>>>> :> <<-5296, 618634, 153470624, 100000000>>)
       @@ (<<<<1, 3>>, <<19, 3>>, <<23, 3>>, <<7, 6>>>> :> <<327979, 646315, 160402887, 100000000>>)
       @@ (<<<<1, 3>>, <<19, 3>>, <<23, 6>>, <<7, 0>>>> :> <<81220, 694799, 172579240, 100000000>>)
       @@ (<<<<1, 3>>, <<19, 3>>, <<23, 6>>, <<7, 3>>>> :> <<350343, 654293, 162428538, 100000000>>)
       @@ (<<<<1, 3>>, <<19, 3>>, <<23, 6>>, <<7, 6>>>> :> <<753815, 682721, 169616598, 100000000>>)
       @@ (<<<<1, 3>>, <<19, 6>>, <<23, 0>>, <<7, 0>>>> :> <<-293443, 770138, 192419425, 100000000>>)
       @@ (<<<<1, 3>>, <<19, 6>>, <<23, 0>>, <<7, 3>>>> :> <<78149, 715727, 178264938, 100000000>>)
       @@ (<<<<1, 3>>, <<19, 6>>, <<23, 0>>, <<7, 6>>>> :> <<537491, 750168, 186956312, 100000000>>)
       @@ (<<<<1, 3>>, <<19, 6>>, <<23, 3>>, <<7, 0>>>> :> <<125914, 708950, 176292645, 100000000>>)
       @@ (<<<<1, 3>>, <<19, 6>>, <<23, 3>>, <<7, 3>>>> :> <<400113, 667115, 165815350, 100000000>>)
       @@ (<<<<1, 3>>, <<19, 6>>, <<23, 3>>, <<7, 6>>>> :> <<823536, 695925, 173189890, 100000000>>)
       @@ (<<<<1, 3>>, <<19, 6>>, <<23, 6>>, <<7, 0>>>> :> <<615359, 750590, 186978856, 100000000>>)
       @@ (<<<<1, 3>>, <<19, 6>>, <<23, 6>>, <<7, 3>>>> :> <<861064, 703466, 175181840, 100000000>>)
       @@ (<<<<1, 3>>, <<19, 6>>, <<23, 6>>, <<7, 6>>>> :> <<1353976, 721592, 179743112, 100000000>>)
       @@ (<<<<1, 6>>, <<19, 0>>, <<23, 0>>, <<7, 3>>>> :> <<-519282, 793781, 198631725, 100000000>>)
       @@ (<<<<1, 6>>, <<19, 0>>, <<23, 3>>, <<7, 0>>>> :> <<-452192, 791138, 197861137, 100000000>>)
       @@ (<<<<1, 6>>, <<19, 0>>, <<23, 3>>, <<7, 3>>>> :> <<-39458, 739609, 184453776, 100000000>>)
       @@ (<<<<1, 6>>, <<19, 0>>, <<23, 3>>, <<7, 6>>>> :> <<445375, 784611, 196373007, 100000000>>)
       @@ (<<<<1, 6>>, <<19, 0>>, <<23, 6>>, <<7, 0>>>> :> <<80480, 869706, 219466307, 100000000>>)
       @@ (<<<<1, 6>>, <<19, 0>>, <<23, 6>>, <<7, 3>>>> :> <<481178, 796660, 199754474, 100000000>>)
       @@ (<<<<1, 6>>, <<19, 3>>, <<23, 0>>, <<7, 0>>>> :> <<-342396, 778288, 194342752, 100000000>>)
       @@ (<<<<1, 6>>, <<19, 3>>, <<23, 0>>, <<7, 3>>>> :> <<43603, 726832, 181085365, 100000000>>)
       @@ (<<<<1, 6>>, <<19, 3>>, <<23, 0>>, <<7, 6>>>> :> <<518755, 768136, 191953901, 100000000>>)
       @@ (<<<<1, 6>>, <<19, 3>>, <<23, 3>>, <<7, 0>>>> :> <<93288, 720431, 179247246, 100000000>>)
       @@ (<<<<1, 6>>, <<19, 3>>, <<23, 3>>, <<7, 3>>>> :> <<379593, 679184, 168949050, 100000000>>)
       @@ (<<<<1, 6>>, <<19, 3>>, <<23, 3>>, <<7, 6>>>> :> <<819939, 712385, 177691299, 100000000>>)
       @@ (<<<<1, 6>>, <<19, 3>>, <<23, 6>>, <<7, 0>>>> :> <<600220, 769280, 192223745, 100000000>>)
       @@ (<<<<1, 6>>, <<19, 3>>, <<23, 6>>, <<7, 3>>>> :> <<859111, 720507, 179870418, 100000000>>)
       @@ (<<<<1, 6>>, <<19, 3>>, <<23, 6>>, <<7, 6>>>> :> <<1376726, 739377, 184717348, 100000000>>)
       @@ (<<<<1, 6>>, <<19, 6>>, <<23, 0>>, <<7, 3>>>> :> <<635885, 797189, 200121321, 100000000>>)
       @@ (<<<<1, 6>>, <<19, 6>>, <<23, 3>>, <<7, 0>>>> :> <<680731, 786370, 197006291, 100000000>>)
       @@ (<<<<1, 6>>, <<19, 6>>, <<23, 3>>, <<7, 3>>>> :> <<940454, 734448, 183743389, 100000000>>)
       @@ (<<<<1, 6>>, <<19, 6>>, <<23, 3>>, <<7, 6>>>> :> <<1477798, 747291, 186953927, 100000000>>)
       @@ (<<<<1, 6>>, <<19, 6>>, <<23, 6>>, <<7, 3>>>> :> <<1531077, 750204, 187514047, 100000000>>)
       @@ (<<<<7, 3>>, <<1, 3>>, <<19, 3>>, <<7, 3>>>> :> <<-26864, 626793, 155503568, 100000000>>)
       @@ (<<<<7, 3>>, <<1, 3>>, <<19, 3>>, <<7, 6>>>> :> <<314010, 655665, 162725605, 100000000>>)
       @@ (<<<<7, 6>>, <<1, 3>>, <<19, 3>>, <<7, 3>>>> :> <<314010, 655665, 162725605, 100000000>>)
       @@ (<<<<7, 6>>, <<1, 3>>, <<19, 3>>, <<7, 6>>>> :> <<717032, 685161, 170177317, 100000000>>)
       @@ (<<<<1, 3>>, <<7, 3>>, <<19, 3>>, <<23, 3>>, <<7, 3>>>> :> <<-42898, 582892, 144741864, 100000000>>)
       @@ (<<<<1, 3>>, <<7, 3>>, <<19, 3>>, <<23, 3>>, <<7, 6>>>> :> <<248551, 606922, 150728994, 100000000>>)
       @@ (<<<<1, 3>>, <<7, 6>>, <<19, 3>>, <<23, 3>>, <<7, 3>>>> :> <<248551, 606922, 150728994, 100000000>>)
       @@ (<<<<1, 3>>, <<7, 6>>, <<19, 3>>, <<23, 3>>, <<7, 6>>>> :> <<588156, 632764, 157165988, 100000000>>)
       @@ (<<<<1, 3>>, <<19, 3>>, <<7, 3>>, <<23, 3>>, <<7, 3>>>> :> <<-42898, 582892, 144741864, 100000000>>)
       @@ (<<<<1, 3>>, <<19, 3>>, <<7, 3>>, <<23, 3>>, <<7, 6>>>> :> <<248551, 606922, 150728994, 100000000>>)
       @@ (<<<<1, 3>>, <<19, 3>>, <<7, 6>>, <<23, 3>>, <<7, 3>>>> :> <<248551, 606922, 150728994, 100000000>>)
       @@ (<<<<1, 3>>, <<19, 3>>, <<7, 6>>, <<23, 3>>, <<7, 6>>>> :> <<588156, 632764, 157165988, 100000000>>)
       @@ (<<<<1, 3>>, <<19, 3>>, <<23, 3>>, <<7, 3>>, <<7, 3>>>> :> <<-42898, 582892, 144741864, 100000000>>)
       @@ (<<<<1, 3>>, <<19, 3>>, <<23, 3>>, <<7, 3>>, <<7, 6>>>> :> <<248551, 606922, 150728994, 100000000>>)
       @@ (<<<<1, 3>>, <<19, 3>>, <<23, 3>>, <<7, 6>>, <<7, 3>>>> :> <<248551, 606922, 150728994, 100000000>>)
       @@ (<<<<1, 3>>, <<19, 3>>, <<23, 3>>, <<7, 6>>, <<7, 6>>>> :> <<588156, 632764, 157165988, 100000000>>)
       @@ (<<<<7, 3>>, <<1, 3>>, <<19, 3>>, <<23, 3>>, <<7, 3>>>> :> <<-42898, 582892, 144741864, 100000000>>)
       @@ (<<<<7, 3>>, <<1, 3>>, <<19, 3>>, <<23, 3>>, <<7, 6>>>> :> <<248551, 606922, 150728994, 100000000>>)
       @@ (<<<<7, 6>>, <<1, 3>>, <<19, 3>>, <<23, 3>>, <<7, 3>>>> :> <<248551, 606922, 150728994, 100000000>>)
       @@ (<<<<7, 6>>, <<1, 3>>, <<19, 3>>, <<23, 3>>, <<7, 6>>>> :> <<588156, 632764, 157165988, 100000000>>)
       @@ (<<<<1, 3>>, <<19, 3>>, <<23, 3>>, <<7, 3>>, <<7, 3>>, <<7, 3>>>> :> <<-73223, 552530, 137273285, 100000000>>)
       @@ (<<<<1, 3>>, <<19, 3>>, <<23, 3>>, <<7, 3>>, <<7, 3>>, <<7, 6>>>> :> <<185258, 573507, 142453256, 100000000>>)
       @@ (<<<<1, 3>>, <<19, 3>>, <<23, 3>>, <<7, 3>>, <<7, 6>>, <<7, 3>>>> :> <<185258, 573507, 142453256, 100000000>>)
       @@ (<<<<1, 3>>, <<19, 3>>, <<23, 3>>, <<7, 3>>, <<7, 6>>, <<7, 6>>>> :> <<483346, 596485, 148241458, 100000000>>)),
      (   (<<<<2, 0>>, <<14, 0>>, <<20, 0>>, <<8, 3>>>> :> <<-2259545, 716242, 180880712, 100000000>>)
       @@ (<<<<2, 0>>, <<14, 0>>, <<20, 3>>, <<8, 0>>>> :> <<-2196505, 709970, 178897169, 100000000>>)
       @@ (<<<<2, 0>>, <<14, 0>>, <<20, 3>>, <<8, 3>>>> :> <<-1861875, 715597, 179285764, 100000000>>)
       @@ (<<<<2, 0>>, <<14, 0>>, <<20, 3>>, <<8, 6>>>> :> <<-1593645, 764904, 191790499, 100000000>>)
       @@ (<<<<2, 0>>, <<14, 0>>, <<20, 6>>, <<8, 3>>>> :> <<-1460071, 790328, 198848351, 100000000>>)
       @@ (<<<<2, 0>>, <<14, 3>>, <<20, 0>>, <<8, 0>>>> :> <<-1975246, 710654, 178515765, 100000000>>)
       @@ (<<<<2, 0>>, <<14, 3>>, <<20, 0>>, <<8, 3>>>> :> <<-1658220, 701925, 175349146, 100000000>>)
       @@ (<<<<2, 0>>, <<14, 3>>, <<20, 0>>, <<8, 6>>>> :> <<-1387788, 741775, 185154238, 100000000>>)
       @@ (<<<<2, 0>>, <<14, 3>>, <<20, 3>>, <<8, 0>>>> :> <<-1618851, 689109, 171856222, 100000000>>)
       @@ (<<<<2, 0>>, <<14, 3>>, <<20, 3>>, <<8, 3>>>> :> <<-1343419, 674779, 168017246, 100000000>>)
       @@ (<<<<2, 0>>, <<14, 3>>, <<20, 3>>, <<8, 6>>>> :> <<-1070882, 710030, 176721110, 100000000>>)
       @@ (<<<<2, 0>>, <<14, 3>>, <<20, 6>>, <<8, 0>>>> :> <<-1227429, 745010, 185936187, 100000000>>)
       @@ (<<<<2, 0>>, <<14, 3>>, <<20, 6>>, <<8, 3>>>> :> <<-939235, 724799, 180711750, 100000000>>)
       @@ (<<<<2, 0>>, <<14, 3>>, <<20, 6>>, <<8, 6>>>> :> <<-587409, 765864, 191233051, 100000000>>)
       @@ (<<<<2, 0>>, <<14, 6>>, <<20, 0>>, <<8, 3>>>> :> <<-1065099, 821481, 207479568, 100000000>>)
       @@ (<<<<2, 0>>, <<14, 6>>, <<20, 3>>, <<8, 0>>>> :> <<-1042040, 802546, 202048117, 100000000>>)
       @@ (<<<<2, 0>>, <<14, 6>>, <<20, 3>>, <<8, 3>>>> :> <<-728486, 774036, 194414360, 100000000>>)
       @@ (<<<<2, 0>>, <<14, 6>>, <<20, 3>>, <<8, 6>>>> :> <<-311718, 810741, 203912449, 100000000>>)
       @@ (<<<<2, 0>>, <<14, 6>>, <<20, 6>>, <<8, 3>>>> :> <<-129473, 812457, 203979279, 100000000>>)
       @@ (<<<<2, 3>>, <<14, 0>>, <<20, 0>>, <<8, 0>>>> :> <<-1812101, 673467, 166994304, 100000000>>)
       @@ (<<<<2, 3>>, <<14, 0>>, <<20, 0>>, <<8, 3>>>> :> <<-1537241, 659247, 162847833, 100000000>>)
       @@ (<<<<2, 3>>, <<14, 0>>, <<20, 0>>, <<8, 6>>>> :> <<-1292181, 693377, 171031582, 100000000>>)
       @@ (<<<<2, 3>>, <<14, 0>>, <<20, 3>>, <<8, 0>>>> :> <<-1506442, 647694, 159921724, 100000000>>)
       @@ (<<<<2, 3>>, <<14, 0>>, <<20, 3>>, <<8, 3>>>> :> <<-1267990, 635369, 156931317, 100000000>>)
       @@ (<<<<2, 3>>, <<14, 0>>, <<20, 3>>, <<8, 6>>>> :> <<-1021372, 669368, 165257211, 100000000>>)
       @@ (<<<<2, 3>>, <<14, 0>>, <<20, 6>>, <<8, 0>>>> :> <<-1152115, 697082, 172039307, 100000000>>)
       @@ (<<<<2, 3>>, <<14, 0>>, <<20, 6>>, <<8, 3>>>> :> <<-902195, 684411, 169326084, 100000000>>)
       @@ (<<<<2, 3>>, <<14, 0>>, <<20, 6>>, <<8, 6>>>> :> <<-582626, 729721, 181349113, 100000000>>)
       @@ (<<<<2, 3>>, <<14, 3>>, <<20, 0>>, <<8, 0>>>> :> <<-1358702, 627844, 154701430, 100000000>>)
       @@ (<<<<2, 3>>, <<14, 3>>, <<20, 0>>, <<8, 3>>>> :> <<-1142178, 615609, 151869186, 100000000>>)
       @@ (<<<<2, 3>>, <<14, 3>>, <<20, 0>>, <<8, 6>>>> :> <<-903641, 647133, 159537430, 100000000>>)
       @@ (<<<<2, 3>>, <<14, 3>>, <<20, 3>>, <<8, 0>>>> :> <<-1127679, 606325, 149491415, 100000000>>)
       @@ (<<<<2, 3>>, <<14, 3>>, <<20, 3>>, <<8, 3>>>> :> <<-936798, 597608, 147599472, 100000000>>)
       @@ (<<<<2, 3>>, <<14, 3>>, <<20, 3>>, <<8, 6>>>> :> <<-699497, 629650, 155520868, 100000000>>)
       @@ (<<<<2, 3>>, <<14, 3>>, <<20, 6>>, <<8, 0>>>> :> <<-784691, 650326, 160560833, 100000000>>)
       @@ (<<<<2, 3>>, <<14, 3>>, <<20, 6>>, <<8, 3>>>> :> <<-587982, 641734, 158863284, 100000000>>)
       @@ (<<<<2, 3>>, <<14, 3>>, <<20, 6>>, <<8, 6>>>> :> <<-288853, 683031, 169682477, 100000000>>)
       @@ (<<<<2, 3>>, <<14, 6>>, <<20, 0>>, <<8, 0>>>> :> <<-839290, 718892, 178224436, 100000000>>)
       @@ (<<<<2, 3>>, <<14, 6>>, <<20, 0>>, <<8, 3>>>> :> <<-598074, 703568, 175080792, 100000000>>)
       @@ (<<<<2, 3>>, <<14, 6>>, <<20, 0>>, <<8, 6>>>> :> <<-239499, 747157, 187205095, 100000000>>)
       @@ (<<<<2, 3>>, <<14, 6>>, <<20, 3>>, <<8, 0>>>> :> <<-598332, 692455, 172141944, 100000000>>)
       @@ (<<<<2, 3>>, <<14, 6>>, <<20, 3>>, <<8, 3>>>> :> <<-390179, 679822, 169470263, 100000000>>)
       @@ (<<<<2, 3>>, <<14, 6>>, <<20, 3>>, <<8, 6>>>> :> <<-43896, 720026, 180482841, 100000000>>)
       @@ (<<<<2, 3>>, <<14, 6>>, <<20, 6>>, <<8, 0>>>> :> <<-96672, 745109, 187032633, 100000000>>)
       @@ (<<<<2, 3>>, <<14, 6>>, <<20, 6>>, <<8, 3>>>> :> <<102849, 725762, 182241816, 100000000>>)
       @@ (<<<<2, 3>>, <<14, 6>>, <<20, 6>>, <<8, 6>>>> :> <<519324, 758247, 190691523, 100000000>>)
       @@ (<<<<2, 6>>, <<14, 0>>, <<20, 0>>, <<8, 3>>>> :> <<-618021, 807592, 203746840, 100000000>>)
       @@ (<<<<2, 6>>, <<14, 0>>, <<20, 3>>, <<8, 0>>>> :> <<-614273, 791134, 199305591, 100000000>>)
       @@ (<<<<2, 6>>, <<14, 0>>, <<20, 3>>, <<8, 3>>>> :> <<-347349, 754710, 189431976, 100000000>>)
       @@ (<<<<2, 6>>, <<14, 0>>, <<20, 3>>, <<8, 6>>>> :> <<66627, 774288, 193534622, 100000000>>)
       @@ (<<<<2, 6>>, <<14, 0>>, <<20, 6>>, <<8, 3>>>> :> <<231759, 767972, 191094338, 100000000>>)
       @@ (<<<<2, 6>>, <<14, 3>>, <<20, 0>>, <<8, 0>>>> :> <<-493861, 750233, 187844556, 100000000>>)
       @@ (<<<<2, 6>>, <<14, 3>>, <<20, 0>>, <<8, 3>>>> :> <<-261305, 720799, 180307660, 100000000>>)
       @@ (<<<<2, 6>>, <<14, 3>>, <<20, 0>>, <<8, 6>>>> :> <<123719, 743569, 185758308, 100000000>>)
       @@ (<<<<2, 6>>, <<14, 3>>, <<20, 3>>, <<8, 0>>>> :> <<-270478, 710872, 177837389, 100000000>>)
       @@ (<<<<2, 6>>, <<14, 3>>, <<20, 3>>, <<8, 3>>>> :> <<-75886, 687976, 171939376, 100000000>>)
       @@ (<<<<2, 6>>, <<14, 3>>, <<20, 3>>, <<8, 6>>>> :> <<285041, 710943, 177385730, 100000000>>)
       @@ (<<<<2, 6>>, <<14, 3>>, <<20, 6>>, <<8, 0>>>> :> <<255214, 733506, 182889721, 100000000>>)
       @@ (<<<<2, 6>>, <<14, 3>>, <<20, 6>>, <<8, 3>>>> :> <<423957, 708344, 176333168, 100000000>>)
       @@ (<<<<2, 6>>, <<14, 3>>, <<20, 6>>, <<8, 6>>>> :> <<823699, 726095, 180098481, 100000000>>)
       @@ (<<<<2, 6>>, <<14, 6>>, <<20, 0>>, <<8, 0>>>> :> <<388921, 779197, 192802838, 100000000>>)
       @@ (<<<<2, 6>>, <<14, 6>>, <<20, 0>>, <<8, 3>>>> :> <<568617, 741522, 183375932, 100000000>>)
       @@ (<<<<2, 6>>, <<14, 6>>, <<20, 3>>, <<8, 0>>>> :> <<543040, 737363, 182689805, 100000000>>)
       @@ (<<<<2, 6>>, <<14, 6>>, <<20, 3>>, <<8, 3>>>> :> <<694430, 709829, 175729412, 100000000>>)
       @@ (<<<<2, 6>>, <<14, 6>>, <<20, 3>>, <<8, 6>>>> :> <<1098133, 719471, 177653023, 100000000>>)
       @@ (<<<<2, 6>>, <<14, 6>>, <<20, 6>>, <<8, 3>>>> :> <<1221949, 710925, 175457409, 100000000>>)
       @@ (<<<<14, 3>>, <<2, 3>>, <<20, 3>>, <<8, 3>>>> :> <<-936798, 597608, 147599472, 100000000>>)
       @@ (<<<<14, 6>>, <<2, 3>>, <<20, 3>>, <<8, 3>>>> :> <<-390179, 679822, 169470263, 100000000>>)),
      (   (<<<<21, 0>>, <<9, 0>>>> :> <<-1674671, 818729, 204498717, 100000000>>)
       @@ (<<<<21, 0>>, <<9, 3>>>> :> <<-901059, 774987, 192894588, 100000000>>)
       @@ (<<<<21, 0>>, <<9, 6>>>> :> <<-211121, 897626, 226620945, 100000000>>)
       @@ (<<<<21, 3>>, <<9, 0>>>> :> <<-852398, 755543, 187194721, 100000000>>)
       @@ (<<<<21, 3>>, <<9, 3>>>> :> <<-346814, 686479, 169433858, 100000000>>)
       @@ (<<<<21, 3>>, <<9, 6>>>> :> <<287190, 770764, 191983402, 100000000>>)
       @@ (<<<<21, 6>>, <<9, 0>>>> :> <<-14482, 886465, 223066439, 100000000>>)
       @@ (<<<<21, 6>>, <<9, 3>>>> :> <<433990, 773617, 192681987, 100000000>>)
       @@ (<<<<21, 6>>, <<9, 6>>>> :> <<1292782, 796151, 196948974, 100000000>>)),
      (   (<<<<22, 0>>, <<3, 0>>, <<10, 0>>>> :> <<-1925687, 819847, 207287144, 100000000>>)
       @@ (<<<<22, 0>>, <<3, 0>>, <<10, 3>>>> :> <<-1455346, 793263, 198172252, 100000000>>)
       @@ (<<<<22, 0>>, <<3, 0>>, <<10, 6>>>> :> <<-862996, 877593, 220599387, 100000000>>)
       @@ (<<<<22, 0>>, <<3, 3>>, <<10, 0>>>> :> <<-1254031, 796643, 198995112, 100000000>>)
       @@ (<<<<22, 0>>, <<3, 3>>, <<10, 3>>>> :> <<-902394, 749466, 186507654, 100000000>>)
       @@ (<<<<22, 0>>, <<3, 3>>, <<10, 6>>>> :> <<-323778, 801562, 199990269, 100000000>>)
       @@ (<<<<22, 0>>, <<3, 6>>, <<10, 0>>>> :> <<-749382, 889043, 223703641, 100000000>>)
       @@ (<<<<22, 0>>, <<3, 6>>, <<10, 3>>>> :> <<-400650, 826820, 207027928, 100000000>>)
       @@ (<<<<22, 0>>, <<3, 6>>, <<10, 6>>>> :> <<341449, 861501, 215568675, 100000000>>)
       @@ (<<<<22, 3>>, <<3, 0>>, <<10, 0>>>> :> <<-1318037, 797434, 199268850, 100000000>>)
       @@ (<<<<22, 3>>, <<3, 0>>, <<10, 3>>>> :> <<-957348, 750168, 186533544, 100000000>>)
       @@ (<<<<22, 3>>, <<3, 0>>, <<10, 6>>>> :> <<-382846, 804066, 200466541, 100000000>>)
       @@ (<<<<22, 3>>, <<3, 3>>, <<10, 0>>>> :> <<-785845, 742850, 184522194, 100000000>>)
       @@ (<<<<22, 3>>, <<3, 3>>, <<10, 3>>>> :> <<-529461, 702957, 174453123, 100000000>>)
       @@ (<<<<22, 3>>, <<3, 3>>, <<10, 6>>>> :> <<4238, 742975, 184767293, 100000000>>)
       @@ (<<<<22, 3>>, <<3, 6>>, <<10, 0>>>> :> <<-279904, 811407, 202492069, 100000000>>)
       @@ (<<<<22, 3>>, <<3, 6>>, <<10, 3>>>> :> <<-41712, 765329, 190827406, 100000000>>)
       @@ (<<<<22, 3>>, <<3, 6>>, <<10, 6>>>> :> <<609228, 793579, 198114853, 100000000>>)
       @@ (<<<<22, 6>>, <<3, 0>>, <<10, 0>>>> :> <<-781007, 892180, 224596899, 100000000>>)
       @@ (<<<<22, 6>>, <<3, 0>>, <<10, 3>>>> :> <<-425499, 826685, 206903133, 100000000>>)
       @@ (<<<<22, 6>>, <<3, 0>>, <<10, 6>>>> :> <<311146, 858623, 214312065, 100000000>>)
       @@ (<<<<22, 6>>, <<3, 3>>, <<10, 0>>>> :> <<-244297, 807484, 201451269, 100000000>>)
       @@ (<<<<22, 6>>, <<3, 3>>, <<10, 3>>>> :> <<-12233, 760571, 189535973, 100000000>>)
       @@ (<<<<22, 6>>, <<3, 3>>, <<10, 6>>>> :> <<628237, 784974, 195474215, 100000000>>)
       @@ (<<<<22, 6>>, <<3, 6>>, <<10, 0>>>> :> <<435172, 859314, 214463693, 100000000>>)
       @@ (<<<<22, 6>>, <<3, 6>>, <<10, 3>>>> :> <<618212, 809711, 202173118, 100000000>>)
       @@ (<<<<22, 6>>, <<3, 6>>, <<10, 6>>>> :> <<1324177, 804511, 200392764, 100000000>>)),
      (   (<<<<22, 0>>, <<3, 0>>, <<10, 0>>, <<11, 3>>>> :> <<-1878289, 761063, 191186521, 100000000>>)
       @@ (<<<<22, 0>>, <<3, 0>>, <<10, 3>>, <<11, 0>>>> :> <<-1857768, 759725, 190794736, 100000000>>)
       @@ (<<<<22, 0>>, <<3, 0>>, <<10, 3>>, <<11, 3>>>> :> <<-1474168, 733271, 182803102, 100000000>>)
       @@ (<<<<22, 0>>, <<3, 0>>, <<10, 3>>, <<11, 6>>>> :> <<-1035965, 791733, 197848085, 100000000>>)
       @@ (<<<<22, 0>>, <<3, 0>>, <<10, 6>>, <<11, 3>>>> :> <<-982481, 800996, 200537185, 100000000>>)
       @@ (<<<<22, 0>>, <<3, 3>>, <<10, 0>>, <<11, 0>>>> :> <<-1671394, 771982, 193757600, 100000000>>)
       @@ (<<<<22, 0>>, <<3, 3>>, <<10, 0>>, <<11, 3>>>> :> <<-1300181, 736041, 183524459, 100000000>>)
       @@ (<<<<22, 0>>, <<3, 3>>, <<10, 0>>, <<11, 6>>>> :> <<-844042, 785763, 196247989, 100000000>>)
       @@ (<<<<22, 0>>, <<3, 3>>, <<10, 3>>, <<11, 0>>>> :> <<-1285572, 732267, 182453047, 100000000>>)
       @@ (<<<<22, 0>>, <<3, 3>>, <<10, 3>>, <<11, 3>>>> :> <<-989241, 697810, 173635970, 100000000>>)
       @@ (<<<<22, 0>>, <<3, 3>>, <<10, 3>>, <<11, 6>>>> :> <<-552860, 739768, 184341031, 100000000>>)
       @@ (<<<<22, 0>>, <<3, 3>>, <<10, 6>>, <<11, 0>>>> :> <<-778151, 787606, 196671875, 100000000>>)
       @@ (<<<<22, 0>>, <<3, 3>>, <<10, 6>>, <<11, 3>>>> :> <<-499216, 744753, 185693385, 100000000>>)
       @@ (<<<<22, 0>>, <<3, 3>>, <<10, 6>>, <<11, 6>>>> :> <<35316, 779352, 194530687, 100000000>>)
       @@ (<<<<22, 0>>, <<3, 6>>, <<10, 0>>, <<11, 3>>>> :> <<-889887, 810842, 203084501, 100000000>>)
       @@ (<<<<22, 0>>, <<3, 6>>, <<10, 3>>, <<11, 0>>>> :> <<-878135, 805418, 201487574, 100000000>>)
       @@ (<<<<22, 0>>, <<3, 6>>, <<10, 3>>, <<11, 3>>>> :> <<-575531, 763437, 190743229, 100000000>>)
       @@ (<<<<22, 0>>, <<3, 6>>, <<10, 3>>, <<11, 6>>>> :> <<-14036, 805340, 201801103, 100000000>>)
       @@ (<<<<22, 0>>, <<3, 6>>, <<10, 6>>, <<11, 0>>>> :> <<-204467, 859735, 215890618, 100000000>>)
       @@ (<<<<22, 0>>, <<3, 6>>, <<10, 6>>, <<11, 3>>>> :> <<52045, 806636, 202043537, 100000000>>)
       @@ (<<<<22, 3>>, <<3, 0>>, <<10, 0>>, <<11, 0>>>> :> <<-1733503, 771838, 194016469, 100000000>>)
       @@ (<<<<22, 3>>, <<3, 0>>, <<10, 0>>, <<11, 3>>>> :> <<-1355024, 736756, 183756022, 100000000>>)
       @@ (<<<<22, 3>>, <<3, 0>>, <<10, 0>>, <<11, 6>>>> :> <<-904172, 787116, 196434198, 100000000>>)
       @@ (<<<<22, 3>>, <<3, 0>>, <<10, 3>>, <<11, 0>>>> :> <<-1339803, 733099, 182635953, 100000000>>)
       @@ (<<<<22, 3>>, <<3, 0>>, <<10, 3>>, <<11, 3>>>> :> <<-1037252, 698231, 173613376, 100000000>>)
       @@ (<<<<22, 3>>, <<3, 0>>, <<10, 3>>, <<11, 6>>>> :> <<-604634, 740685, 184379225, 100000000>>)
       @@ (<<<<22, 3>>, <<3, 0>>, <<10, 6>>, <<11, 0>>>> :> <<-838243, 789371, 197016160, 100000000>>)
       @@ (<<<<22, 3>>, <<3, 0>>, <<10, 6>>, <<11, 3>>>> :> <<-551412, 746018, 185875678, 100000000>>)
       @@ (<<<<22, 3>>, <<3, 0>>, <<10, 6>>, <<11, 6>>>> :> <<-17594, 782629, 195292579, 100000000>>)
       @@ (<<<<22, 3>>, <<3, 3>>, <<10, 0>>, <<11, 0>>>> :> <<-1167724, 731090, 182017245, 100000000>>)
       @@ (<<<<22, 3>>, <<3, 3>>, <<10, 0>>, <<11, 3>>>> :> <<-885000, 693472, 172322280, 100000000>>)
       @@ (<<<<22, 3>>, <<3, 3>>, <<10, 0>>, <<11, 6>>>> :> <<-448991, 729561, 181405669, 100000000>>)
       @@ (<<<<22, 3>>, <<3, 3>>, <<10, 3>>, <<11, 0>>>> :> <<-876234, 689610, 171314886, 100000000>>)
       @@ (<<<<22, 3>>, <<3, 3>>, <<10, 3>>, <<11, 3>>>> :> <<-648702, 660323, 163944019, 100000000>>)
       @@ (<<<<22, 3>>, <<3, 3>>, <<10, 3>>, <<11, 6>>>> :> <<-236551, 694421, 172618969, 100000000>>)
       @@ (<<<<22, 3>>, <<3, 3>>, <<10, 6>>, <<11, 0>>>> :> <<-391958, 729214, 181359359, 100000000>>)
       @@ (<<<<22, 3>>, <<3, 3>>, <<10, 6>>, <<11, 3>>>> :> <<-186755, 697380, 173441392, 100000000>>)
       @@ (<<<<22, 3>>, <<3, 3>>, <<10, 6>>, <<11, 6>>>> :> <<297305, 727400, 181199028, 100000000>>)
       @@ (<<<<22, 3>>, <<3, 6>>, <<10, 0>>, <<11, 0>>>> :> <<-746201, 797175, 198981768, 100000000>>)
       @@ (<<<<22, 3>>, <<3, 6>>, <<10, 0>>, <<11, 3>>>> :> <<-464763, 753095, 187774505, 100000000>>)
       @@ (<<<<22, 3>>, <<3, 6>>, <<10, 0>>, <<11, 6>>>> :> <<84273, 787794, 196820012, 100000000>>)
       @@ (<<<<22, 3>>, <<3, 6>>, <<10, 3>>, <<11, 0>>>> :> <<-459826, 748531, 186498996, 100000000>>)
       @@ (<<<<22, 3>>, <<3, 6>>, <<10, 3>>, <<11, 3>>>> :> <<-237715, 715308, 178169478, 100000000>>)
       @@ (<<<<22, 3>>, <<3, 6>>, <<10, 3>>, <<11, 6>>>> :> <<271137, 748622, 186955107, 100000000>>)
       @@ (<<<<22, 3>>, <<3, 6>>, <<10, 6>>, <<11, 0>>>> :> <<146206, 784272, 195763717, 100000000>>)
       @@ (<<<<22, 3>>, <<3, 6>>, <<10, 6>>, <<11, 3>>>> :> <<328591, 748763, 186914765, 100000000>>)
       @@ (<<<<22, 3>>, <<3, 6>>, <<10, 6>>, <<11, 6>>>> :> <<893701, 765824, 191131384, 100000000>>)
       @@ (<<<<22, 6>>, <<3, 0>>, <<10, 0>>, <<11, 3>>>> :> <<-916228, 814034, 204081157, 100000000>>)
       @@ (<<<<22, 6>>, <<3, 0>>, <<10, 3>>, <<11, 0>>>> :> <<-903951, 808520, 202451631, 100000000>>)
       @@ (<<<<22, 6>>, <<3, 0>>, <<10, 3>>, <<11, 3>>>> :> <<-596300, 764053, 190862709, 100000000>>)
       @@ (<<<<22, 6>>, <<3, 0>>, <<10, 3>>, <<11, 6>>>> :> <<-38072, 803145, 200992205, 100000000>>)
       @@ (<<<<22, 6>>, <<3, 0>>, <<10, 6>>, <<11, 3>>>> :> <<27593, 804341, 201128136, 100000000>>)
       @@ (<<<<22, 6>>, <<3, 3>>, <<10, 0>>, <<11, 0>>>> :> <<-709154, 797404, 199215120, 100000000>>)
       @@ (<<<<22, 6>>, <<3, 3>>, <<10, 0>>, <<11, 3>>>> :> <<-431841, 751476, 187452262, 100000000>>)
       @@ (<<<<22, 6>>, <<3, 3>>, <<10, 0>>, <<11, 6>>>> :> <<113390, 781419, 194916311, 100000000>>)
       @@ (<<<<22, 6>>, <<3, 3>>, <<10, 3>>, <<11, 0>>>> :> <<-427268, 746931, 186189524, 100000000>>)
       @@ (<<<<22, 6>>, <<3, 3>>, <<10, 3>>, <<11, 3>>>> :> <<-209187, 712646, 177535987, 100000000>>)
       @@ (<<<<22, 6>>, <<3, 3>>, <<10, 3>>, <<11, 6>>>> :> <<294622, 742334, 185154424, 100000000>>)
       @@ (<<<<22, 6>>, <<3, 3>>, <<10, 6>>, <<11, 0>>>> :> <<174084, 777522, 193766383, 100000000>>)
       @@ (<<<<22, 6>>, <<3, 3>>, <<10, 6>>, <<11, 3>>>> :> <<351077, 742144, 184959930, 100000000>>)
       @@ (<<<<22, 6>>, <<3, 3>>, <<10, 6>>, <<11, 6>>>> :> <<905505, 757824, 188708152, 100000000>>)
       @@ (<<<<22, 6>>, <<3, 6>>, <<10, 0>>, <<11, 3>>>> :> <<135242, 808338, 202222877, 100000000>>)
       @@ (<<<<22, 6>>, <<3, 6>>, <<10, 3>>, <<11, 0>>>> :> <<133928, 804076, 201123649, 100000000>>)
       @@ (<<<<22, 6>>, <<3, 6>>, <<10, 3>>, <<11, 3>>>> :> <<326581, 764692, 191158457, 100000000>>)
       @@ (<<<<22, 6>>, <<3, 6>>, <<10, 3>>, <<11, 6>>>> :> <<912222, 777571, 193885966, 100000000>>)
       @@ (<<<<22, 6>>, <<3, 6>>, <<10, 6>>, <<11, 3>>>> :> <<969175, 773799, 192751072, 100000000>>)),
      (   (<<<<18, 0>>, <<12, 0>>>> :> <<-1630467, 768393, 189784680, 100000000>>)
       @@ (<<<<18, 0>>, <<12, 3>>>> :> <<-966355, 726985, 179996745, 100000000>>)
       @@ (<<<<18, 0>>, <<12, 6>>>> :> <<-345457, 841550, 211960576, 100000000>>)
       @@ (<<<<18, 3>>, <<24, 0>>, <<12, 0>>>> :> <<-1254102, 659741, 163106938, 100000000>>)
       @@ (<<<<18, 3>>, <<24, 0>>, <<12, 3>>>> :> <<-805319, 609406, 150015400, 100000000>>)
       @@ (<<<<18, 3>>, <<24, 0>>, <<12, 6>>>> :> <<-372274, 676332, 167065829, 100000000>>)
       @@ (<<<<18, 3>>, <<24, 3>>, <<12, 0>>>> :> <<-762815, 615151, 151536920, 100000000>>)
       @@ (<<<<18, 3>>, <<24, 3>>, <<12, 3>>>> :> <<-433008, 571309, 140623455, 100000000>>)
       @@ (<<<<18, 3>>, <<24, 3>>, <<12, 6>>>> :> <<-2091, 626999, 154932093, 100000000>>)
       @@ (<<<<18, 3>>, <<24, 6>>, <<12, 0>>>> :> <<-387652, 682293, 168547494, 100000000>>)
       @@ (<<<<18, 3>>, <<24, 6>>, <<12, 3>>>> :> <<-58688, 631219, 155941057, 100000000>>)
       @@ (<<<<18, 3>>, <<24, 6>>, <<12, 6>>>> :> <<520382, 691960, 172239131, 100000000>>)
       @@ (<<<<18, 6>>, <<24, 0>>, <<12, 0>>>> :> <<-717336, 779561, 195866341, 100000000>>)
       @@ (<<<<18, 6>>, <<24, 0>>, <<12, 3>>>> :> <<-238493, 695797, 172655913, 100000000>>)
       @@ (<<<<18, 6>>, <<24, 0>>, <<12, 6>>>> :> <<425664, 748364, 184658789, 100000000>>)
       @@ (<<<<18, 6>>, <<24, 3>>, <<12, 0>>>> :> <<-179339, 696043, 172359830, 100000000>>)
       @@ (<<<<18, 6>>, <<24, 3>>, <<12, 3>>>> :> <<123628, 634782, 156641570, 100000000>>)
       @@ (<<<<18, 6>>, <<24, 3>>, <<12, 6>>>> :> <<708840, 679826, 167591959, 100000000>>)
       @@ (<<<<18, 6>>, <<24, 6>>, <<12, 0>>>> :> <<421762, 754669, 186249332, 100000000>>)
       @@ (<<<<18, 6>>, <<24, 6>>, <<12, 3>>>> :> <<663738, 689479, 170220013, 100000000>>)
       @@ (<<<<18, 6>>, <<24, 6>>, <<12, 6>>>> :> <<1359644, 721979, 178424207, 100000000>>)),
      (   (<<<<21, 0>>, <<9, 0>>, <<13, 0>>>> :> <<-2054299, 762265, 191368786, 100000000>>)
       @@ (<<<<21, 0>>, <<9, 0>>, <<13, 3>>>> :> <<-1607534, 755583, 188369937, 100000000>>)
       @@ (<<<<21, 0>>, <<9, 0>>, <<13, 6>>>> :> <<-1210360, 829505, 207809549, 100000000>>)
       @@ (<<<<21, 0>>, <<9, 3>>, <<13, 0>>>> :> <<-1292805, 751786, 187543272, 100000000>>)
       @@ (<<<<21, 0>>, <<9, 3>>, <<13, 3>>>> :> <<-946849, 714806, 177811406, 100000000>>)
       @@ (<<<<21, 0>>, <<9, 3>>, <<13, 6>>>> :> <<-532366, 759169, 188997294, 100000000>>)
       @@ (<<<<21, 0>>, <<9, 6>>, <<13, 0>>>> :> <<-767274, 871816, 220085220, 100000000>>)
       @@ (<<<<21, 0>>, <<9, 6>>, <<13, 3>>>> :> <<-391219, 817390, 205448196, 100000000>>)
       @@ (<<<<21, 0>>, <<9, 6>>, <<13, 6>>>> :> <<208926, 853940, 214401523, 100000000>>)
       @@ (<<<<21, 3>>, <<9, 0>>, <<13, 0>>>> :> <<-1228820, 736839, 183187266, 100000000>>)
       @@ (<<<<21, 3>>, <<9, 0>>, <<13, 3>>>> :> <<-902596, 698923, 173259543, 100000000>>)
       @@ (<<<<21, 3>>, <<9, 0>>, <<13, 6>>>> :> <<-503907, 740226, 183595081, 100000000>>)
       @@ (<<<<21, 3>>, <<9, 3>>, <<13, 0>>>> :> <<-674957, 672367, 166111915, 100000000>>)
       @@ (<<<<21, 3>>, <<9, 3>>, <<13, 3>>>> :> <<-448414, 643026, 158902675, 100000000>>)
       @@ (<<<<21, 3>>, <<9, 3>>, <<13, 6>>>> :> <<-80573, 675851, 167157216, 100000000>>)
       @@ (<<<<21, 3>>, <<9, 6>>, <<13, 0>>>> :> <<-140177, 752482, 187070276, 100000000>>)
       @@ (<<<<21, 3>>, <<9, 6>>, <<13, 3>>>> :> <<82067, 717311, 178421437, 100000000>>)
       @@ (<<<<21, 3>>, <<9, 6>>, <<13, 6>>>> :> <<570284, 748220, 186652121, 100000000>>)
       @@ (<<<<21, 6>>, <<9, 0>>, <<13, 0>>>> :> <<-572636, 874646, 221038189, 100000000>>)
       @@ (<<<<21, 6>>, <<9, 0>>, <<13, 3>>>> :> <<-222036, 813783, 204458862, 100000000>>)
       @@ (<<<<21, 6>>, <<9, 0>>, <<13, 6>>>> :> <<376289, 836758, 209160973, 100000000>>)
       @@ (<<<<21, 6>>, <<9, 3>>, <<13, 0>>>> :> <<-4051, 763663, 190364108, 100000000>>)
       @@ (<<<<21, 6>>, <<9, 3>>, <<13, 3>>>> :> <<210711, 724487, 180570111, 100000000>>)
       @@ (<<<<21, 6>>, <<9, 3>>, <<13, 6>>>> :> <<706753, 745439, 185550722, 100000000>>)
       @@ (<<<<21, 6>>, <<9, 6>>, <<13, 0>>>> :> <<803655, 806324, 199945722, 100000000>>)
       @@ (<<<<21, 6>>, <<9, 6>>, <<13, 3>>>> :> <<963198, 763899, 189642409, 100000000>>)
       @@ (<<<<21, 6>>, <<9, 6>>, <<13, 6>>>> :> <<1508529, 758289, 187920872, 100000000>>)),
      (   (<<<<14, 3>>>> :> <<-430214, 833052, 206896294, 100000000>>)
       @@ (<<<<14, 6>>>> :> <<722340, 897922, 223566345, 100000000>>)
       @@ (<<<<2, 0>>, <<14, 0>>>> :> <<-1991161, 808763, 203662090, 100000000>>)
       @@ (<<<<2, 0>>, <<14, 3>>>> :> <<-1317581, 770741, 192095530, 100000000>>)
       @@ (<<<<2, 0>>, <<14, 6>>>> :> <<-454684, 908240, 229775322, 100000000>>)
       @@ (<<<<2, 3>>, <<14, 0>>>> :> <<-1224993, 718422, 176761132, 100000000>>)
       @@ (<<<<2, 3>>, <<14, 3>>>> :> <<-825093, 669049, 164658883, 100000000>>)
       @@ (<<<<2, 3>>, <<14, 6>>>> :> <<-88818, 780209, 195702668, 100000000>>)
       @@ (<<<<2, 6>>, <<14, 0>>>> :> <<20573, 856587, 213923590, 100000000>>)
       @@ (<<<<2, 6>>, <<14, 3>>>> :> <<292483, 769021, 191605093, 100000000>>)
       @@ (<<<<2, 6>>, <<14, 6>>>> :> <<1227276, 769418, 189475953, 100000000>>)
       @@ (<<<<14, 3>>, <<14, 3>>>> :> <<-665481, 712562, 176112365, 100000000>>)
       @@ (<<<<14, 3>>, <<14, 6>>>> :> <<175249, 804523, 201348458, 100000000>>)
       @@ (<<<<14, 6>>, <<14, 3>>>> :> <<175249, 804523, 201348458, 100000000>>)
       @@ (<<<<14, 6>>, <<14, 6>>>> :> <<1205519, 807000, 199876703, 100000000>>)
       @@ (<<<<2, 3>>, <<14, 3>>, <<14, 3>>>> :> <<-924876, 594353, 146473153, 100000000>>)
       @@ (<<<<2, 3>>, <<14, 3>>, <<14, 6>>>> :> <<-378840, 680499, 169160477, 100000000>>)
       @@ (<<<<2, 3>>, <<14, 6>>, <<14, 3>>>> :> <<-378840, 680499, 169160477, 100000000>>)
       @@ (<<<<2, 3>>, <<14, 6>>, <<14, 6>>>> :> <<413492, 754739, 189929564, 100000000>>)
       @@ (<<<<14, 3>>, <<2, 3>>, <<14, 3>>>> :> <<-924876, 594353, 146473153, 100000000>>)
       @@ (<<<<14, 3>>, <<2, 3>>, <<14, 6>>>> :> <<-378840, 680499, 169160477, 100000000>>)
       @@ (<<<<14, 6>>, <<2, 3>>, <<14, 3>>>> :> <<-378840, 680499, 169160477, 100000000>>)
       @@ (<<<<14, 6>>, <<2, 3>>, <<14, 6>>>> :> <<413492, 754739, 189929564, 100000000>>)
       @@ (<<<<2, 3>>, <<14, 3>>, <<14, 3>>, <<14, 3>>>> :> <<-991155, 539708, 133216605, 100000000>>)
       @@ (<<<<2, 3>>, <<14, 3>>, <<14, 3>>, <<14, 6>>>> :> <<-564684, 604861, 149816902, 100000000>>)
       @@ (<<<<2, 3>>, <<14, 3>>, <<14, 6>>, <<14, 3>>>> :> <<-564684, 604861, 149816902, 100000000>>)
       @@ (<<<<2, 3>>, <<14, 3>>, <<14, 6>>, <<14, 6>>>> :> <<45869, 679930, 170590191, 100000000>>)
       @@ (<<<<2, 3>>, <<14, 3>>, <<20, 3>>, <<14, 3>>>> :> <<-988595, 561576, 138616328, 100000000>>)
       @@ (<<<<2, 3>>, <<14, 3>>, <<20, 3>>, <<14, 6>>>> :> <<-521237, 633682, 157262126, 100000000>>)
       @@ (<<<<2, 3>>, <<14, 6>>, <<20, 3>>, <<14, 3>>>> :> <<-521237, 633682, 157262126, 100000000>>)
       @@ (<<<<2, 3>>, <<14, 6>>, <<20, 3>>, <<14, 6>>>> :> <<152983, 708562, 178188684, 100000000>>)
       @@ (<<<<14, 3>>, <<2, 3>>, <<20, 3>>, <<14, 3>>>> :> <<-988595, 561576, 138616328, 100000000>>)
       @@ (<<<<14, 3>>, <<2, 3>>, <<20, 3>>, <<14, 6>>>> :> <<-521237, 633682, 157262126, 100000000>>)
       @@ (<<<<14, 6>>, <<2, 3>>, <<20, 3>>, <<14, 3>>>> :> <<-521237, 633682, 157262126, 100000000>>)
       @@ (<<<<14, 6>>, <<2, 3>>, <<20, 3>>, <<14, 6>>>> :> <<152983, 708562, 178188684, 100000000>>)
       @@ (<<<<2, 3>>, <<14, 3>>, <<14, 3>>, <<20, 3>>, <<14, 3>>>> :> <<-1039297, 514926, 127281466, 100000000>>)
       @@ (<<<<2, 3>>, <<14, 3>>, <<14, 3>>, <<20, 3>>, <<14, 6>>>> :> <<-664240, 570102, 141192080, 100000000>>)
       @@ (<<<<2, 3>>, <<14, 3>>, <<14, 6>>, <<20, 3>>, <<14, 3>>>> :> <<-664240, 570102, 141192080, 100000000>>)
       @@ (<<<<2, 3>>, <<14, 3>>, <<14, 6>>, <<20, 3>>, <<14, 6>>>> :> <<-138405, 637871, 159535913, 100000000>>)
       @@ (<<<<2, 3>>, <<14, 3>>, <<20, 3>>, <<8, 3>>, <<14, 3>>>> :> <<-1001511, 542668, 134117970, 100000000>>)
       @@ (<<<<2, 3>>, <<14, 3>>, <<20, 3>>, <<8, 3>>, <<14, 6>>>> :> <<-573244, 606067, 150429325, 100000000>>)
       @@ (<<<<2, 3>>, <<14, 3>>, <<20, 3>>, <<14, 3>>, <<14, 3>>>> :> <<-1039297, 514926, 127281466, 100000000>>)
       @@ (<<<<2, 3>>, <<14, 3>>, <<20, 3>>, <<14, 3>>, <<14, 6>>>> :> <<-664240, 570102, 141192080, 100000000>>)
       @@ (<<<<2, 3>>, <<14, 3>>, <<20, 3>>, <<14, 6>>, <<14, 3>>>> :> <<-664240, 570102, 141192080, 100000000>>)
       @@ (<<<<2, 3>>, <<14, 3>>, <<20, 3>>, <<14, 6>>, <<14, 6>>>> :> <<-138405, 637871, 159535913, 100000000>>)
       @@ (<<<<2, 3>>, <<14, 6>>, <<20, 3>>, <<8, 3>>, <<14, 3>>>> :> <<-573244, 606067, 150429325, 100000000>>)
       @@ (<<<<2, 3>>, <<14, 6>>, <<20, 3>>, <<8, 3>>, <<14, 6>>>> :> <<32672, 674848, 169466406, 100000000>>)
       @@ (<<<<14, 3>>, <<2, 3>>, <<20, 3>>, <<8, 3>>, <<14, 3>>>> :> <<-1001511, 542668, 134117970, 100000000>>)
       @@ (<<<<14, 3>>, <<2, 3>>, <<20, 3>>, <<8, 3>>, <<14, 6>>>> :> <<-573244, 606067, 150429325, 100000000>>)
       @@ (<<<<14, 6>>, <<2, 3>>, <<20, 3>>, <<8, 3>>, <<14, 3>>>> :> <<-573244, 606067, 150429325, 100000000>>)
       @@ (<<<<14, 6>>, <<2, 3>>, <<20, 3>>, <<8, 3>>, <<14, 6>>>> :> <<32672, 674848, 169466406, 100000000>>)
       @@ (<<<<2, 3>>, <<14, 3>>, <<20, 3>>, <<8, 3>>, <<14, 3>>, <<14, 3>>>> :> <<-1047382, 500335, 123807013, 100000000>>)
       @@ (<<<<2, 3>>, <<14, 3>>, <<20, 3>>, <<8, 3>>, <<14, 3>>, <<14, 6>>>> :> <<-698154, 549664, 136275429, 100000000>>)
       @@ (<<<<2, 3>>, <<14, 3>>, <<20, 3>>, <<8, 3>>, <<14, 6>>, <<14, 3>>>> :> <<-698154, 549664, 136275429, 100000000>>)
       @@ (<<<<2, 3>>, <<14, 3>>, <<20, 3>>, <<8, 3>>, <<14, 6>>, <<14, 6>>>> :> <<-218418, 610467, 152520854, 100000000>>)),
      (   (<<<<4, 0>>, <<16, 0>>, <<15, 0>>>> :> <<-1538396, 793619, 197799564, 100000000>>)
       @@ (<<<<4, 0>>, <<16, 0>>, <<15, 3>>>> :> <<-904385, 791998, 197217329, 100000000>>)
       @@ (<<<<4, 0>>, <<16, 0>>, <<15, 6>>>> :> <<-677076, 846392, 210733822, 100000000>>)
       @@ (<<<<4, 0>>, <<16, 3>>, <<15, 0>>>> :> <<-831822, 778458, 193784740, 100000000>>)
       @@ (<<<<4, 0>>, <<16, 3>>, <<15, 3>>>> :> <<-271985, 750477, 186951500, 100000000>>)
       @@ (<<<<4, 0>>, <<16, 3>>, <<15, 6>>>> :> <<4666, 799857, 199542539, 100000000>>)
       @@ (<<<<4, 0>>, <<16, 6>>, <<15, 0>>>> :> <<-518534, 852418, 212777306, 100000000>>)
       @@ (<<<<4, 0>>, <<16, 6>>, <<15, 3>>>> :> <<114892, 818422, 204926756, 100000000>>)
       @@ (<<<<4, 0>>, <<16, 6>>, <<15, 6>>>> :> <<519552, 886128, 223198050, 100000000>>)
       @@ (<<<<4, 3>>, <<16, 0>>, <<15, 0>>>> :> <<-641325, 788478, 197237606, 100000000>>)
       @@ (<<<<4, 3>>, <<16, 0>>, <<15, 3>>>> :> <<-91312, 743521, 184937861, 100000000>>)
       @@ (<<<<4, 3>>, <<16, 0>>, <<15, 6>>>> :> <<198073, 784764, 195036926, 100000000>>)
       @@ (<<<<4, 3>>, <<16, 3>>, <<15, 0>>>> :> <<-57359, 724844, 179917706, 100000000>>)
       @@ (<<<<4, 3>>, <<16, 3>>, <<15, 3>>>> :> <<367172, 681420, 168772408, 100000000>>)
       @@ (<<<<4, 3>>, <<16, 3>>, <<15, 6>>>> :> <<659239, 717241, 177605402, 100000000>>)
       @@ (<<<<4, 3>>, <<16, 6>>, <<15, 0>>>> :> <<327865, 775639, 192614610, 100000000>>)
       @@ (<<<<4, 3>>, <<16, 6>>, <<15, 3>>>> :> <<766766, 724208, 179596490, 100000000>>)
       @@ (<<<<4, 3>>, <<16, 6>>, <<15, 6>>>> :> <<1153112, 767117, 190768153, 100000000>>)
       @@ (<<<<4, 6>>, <<16, 0>>, <<15, 0>>>> :> <<-286205, 888653, 223605871, 100000000>>)
       @@ (<<<<4, 6>>, <<16, 0>>, <<15, 3>>>> :> <<359827, 833357, 208979551, 100000000>>)
       @@ (<<<<4, 6>>, <<16, 0>>, <<15, 6>>>> :> <<813566, 890345, 224142681, 100000000>>)
       @@ (<<<<4, 6>>, <<16, 3>>, <<15, 0>>>> :> <<375333, 808976, 202156126, 100000000>>)
       @@ (<<<<4, 6>>, <<16, 3>>, <<15, 3>>>> :> <<842872, 752014, 187439315, 100000000>>)
       @@ (<<<<4, 6>>, <<16, 3>>, <<15, 6>>>> :> <<1268782, 793135, 198308824, 100000000>>)
       @@ (<<<<4, 6>>, <<16, 6>>, <<15, 0>>>> :> <<958180, 868680, 218035282, 100000000>>)
       @@ (<<<<4, 6>>, <<16, 6>>, <<15, 3>>>> :> <<1402720, 788220, 196828101, 100000000>>)
       @@ (<<<<4, 6>>, <<16, 6>>, <<15, 6>>>> :> <<1927246, 802088, 201961820, 100000000>>)),
      (   (<<<<4, 0>>, <<16, 0>>>> :> <<-1205787, 835660, 207764746, 100000000>>)
       @@ (<<<<4, 0>>, <<16, 3>>>> :> <<-467289, 804208, 200207518, 100000000>>)
       @@ (<<<<4, 0>>, <<16, 6>>>> :> <<-49271, 892029, 223632848, 100000000>>)
       @@ (<<<<4, 3>>, <<16, 0>>>> :> <<-261257, 803021, 200114148, 100000000>>)
       @@ (<<<<4, 3>>, <<16, 3>>>> :> <<286416, 730035, 180660243, 100000000>>)
       @@ (<<<<4, 3>>, <<16, 6>>>> :> <<738972, 782957, 194078288, 100000000>>)
       @@ (<<<<4, 6>>, <<16, 0>>>> :> <<233666, 917735, 231317501, 100000000>>)
       @@ (<<<<4, 6>>, <<16, 3>>>> :> <<825242, 816750, 203897334, 100000000>>)
       @@ (<<<<4, 6>>, <<16, 6>>>> :> <<1485746, 854639, 213986302, 100000000>>)),
      (   (<<<<4, 0>>, <<16, 0>>, <<15, 0>>, <<17, 3>>>> :> <<-1351553, 760507, 189223732, 100000000>>)
       @@ (<<<<4, 0>>, <<16, 0>>, <<15, 3>>, <<17, 0>>>> :> <<-1201464, 771209, 192108667, 100000000>>)
       @@ (<<<<4, 0>>, <<16, 0>>, <<15, 3>>, <<17, 3>>>> :> <<-778585, 751549, 187242754, 100000000>>)
       @@ (<<<<4, 0>>, <<16, 0>>, <<15, 3>>, <<17, 6>>>> :> <<-532399, 788358, 196718335, 100000000>>)
       @@ (<<<<4, 0>>, <<16, 0>>, <<15, 6>>, <<17, 3>>>> :> <<-564040, 798044, 198903884, 100000000>>)
       @@ (<<<<4, 0>>, <<16, 3>>, <<15, 0>>, <<17, 0>>>> :> <<-1123441, 762006, 189818601, 100000000>>)
       @@ (<<<<4, 0>>, <<16, 3>>, <<15, 0>>, <<17, 3>>>> :> <<-716269, 738374, 183875041, 100000000>>)
       @@ (<<<<4, 0>>, <<16, 3>>, <<15, 0>>, <<17, 6>>>> :> <<-475134, 771330, 192289939, 100000000>>)
       @@ (<<<<4, 0>>, <<16, 3>>, <<15, 3>>, <<17, 0>>>> :> <<-566210, 740133, 184448534, 100000000>>)
       @@ (<<<<4, 0>>, <<16, 3>>, <<15, 3>>, <<17, 3>>>> :> <<-216460, 711777, 177338645, 100000000>>)
       @@ (<<<<4, 0>>, <<16, 3>>, <<15, 3>>, <<17, 6>>>> :> <<47194, 740228, 184578277, 100000000>>)
       @@ (<<<<4, 0>>, <<16, 3>>, <<15, 6>>, <<17, 0>>>> :> <<-336411, 783224, 195269261, 100000000>>)
       @@ (<<<<4, 0>>, <<16, 3>>, <<15, 6>>, <<17, 3>>>> :> <<35038, 753781, 187967552, 100000000>>)
       @@ (<<<<4, 0>>, <<16, 3>>, <<15, 6>>, <<17, 6>>>> :> <<359010, 790965, 197596239, 100000000>>)
       @@ (<<<<4, 0>>, <<16, 6>>, <<15, 0>>, <<17, 3>>>> :> <<-422310, 801360, 200132151, 100000000>>)
       @@ (<<<<4, 0>>, <<16, 6>>, <<15, 3>>, <<17, 0>>>> :> <<-246134, 802482, 200689279, 100000000>>)
       @@ (<<<<4, 0>>, <<16, 6>>, <<15, 3>>, <<17, 3>>>> :> <<134265, 769511, 192460508, 100000000>>)
       @@ (<<<<4, 0>>, <<16, 6>>, <<15, 3>>, <<17, 6>>>> :> <<480383, 805179, 201883413, 100000000>>)
       @@ (<<<<4, 0>>, <<16, 6>>, <<15, 6>>, <<17, 3>>>> :> <<488043, 826286, 207518735, 100000000>>)
       @@ (<<<<4, 3>>, <<16, 0>>, <<15, 0>>, <<17, 0>>>> :> <<-950427, 777996, 195030797, 100000000>>)
       @@ (<<<<4, 3>>, <<16, 0>>, <<15, 0>>, <<17, 3>>>> :> <<-541034, 744516, 186016355, 100000000>>)
       @@ (<<<<4, 3>>, <<16, 0>>, <<15, 0>>, <<17, 6>>>> :> <<-283306, 771694, 192610264, 100000000>>)
       @@ (<<<<4, 3>>, <<16, 0>>, <<15, 3>>, <<17, 0>>>> :> <<-388631, 741288, 184965903, 100000000>>)
       @@ (<<<<4, 3>>, <<16, 0>>, <<15, 3>>, <<17, 3>>>> :> <<-52575, 704578, 175267475, 100000000>>)
       @@ (<<<<4, 3>>, <<16, 0>>, <<15, 3>>, <<17, 6>>>> :> <<215071, 725868, 180356440, 100000000>>)
       @@ (<<<<4, 3>>, <<16, 0>>, <<15, 6>>, <<17, 0>>>> :> <<-140506, 779080, 194267292, 100000000>>)
       @@ (<<<<4, 3>>, <<16, 0>>, <<15, 6>>, <<17, 3>>>> :> <<208756, 740089, 183959753, 100000000>>)
       @@ (<<<<4, 3>>, <<16, 0>>, <<15, 6>>, <<17, 6>>>> :> <<530455, 767559, 190650183, 100000000>>)
       @@ (<<<<4, 3>>, <<16, 3>>, <<15, 0>>, <<17, 0>>>> :> <<-341716, 724035, 180197069, 100000000>>)
       @@ (<<<<4, 3>>, <<16, 3>>, <<15, 0>>, <<17, 3>>>> :> <<-23417, 688286, 170975049, 100000000>>)
       @@ (<<<<4, 3>>, <<16, 3>>, <<15, 0>>, <<17, 6>>>> :> <<233473, 708106, 175640134, 100000000>>)
       @@ (<<<<4, 3>>, <<16, 3>>, <<15, 3>>, <<17, 0>>>> :> <<105002, 680751, 168861435, 100000000>>)
       @@ (<<<<4, 3>>, <<16, 3>>, <<15, 3>>, <<17, 3>>>> :> <<361345, 651072, 161437515, 100000000>>)
       @@ (<<<<4, 3>>, <<16, 3>>, <<15, 3>>, <<17, 6>>>> :> <<616297, 669057, 165797915, 100000000>>)
       @@ (<<<<4, 3>>, <<16, 3>>, <<15, 6>>, <<17, 0>>>> :> <<364297, 712596, 176607841, 100000000>>)
       @@ (<<<<4, 3>>, <<16, 3>>, <<15, 6>>, <<17, 3>>>> :> <<625174, 682554, 169183475, 100000000>>)
       @@ (<<<<4, 3>>, <<16, 3>>, <<15, 6>>, <<17, 6>>>> :> <<926439, 706101, 175134305, 100000000>>)
       @@ (<<<<4, 3>>, <<16, 6>>, <<15, 0>>, <<17, 0>>>> :> <<-7904, 772716, 192390203, 100000000>>)
       @@ (<<<<4, 3>>, <<16, 6>>, <<15, 0>>, <<17, 3>>>> :> <<324997, 732479, 181969190, 100000000>>)
       @@ (<<<<4, 3>>, <<16, 6>>, <<15, 0>>, <<17, 6>>>> :> <<648163, 757041, 188001845, 100000000>>)
       @@ (<<<<4, 3>>, <<16, 6>>, <<15, 3>>, <<17, 0>>>> :> <<463110, 721696, 179127230, 100000000>>)
       @@ (<<<<4, 3>>, <<16, 6>>, <<15, 3>>, <<17, 3>>>> :> <<722586, 689241, 171085446, 100000000>>)
       @@ (<<<<4, 3>>, <<16, 6>>, <<15, 3>>, <<17, 6>>>> :> <<1034777, 710205, 176369789, 100000000>>)
       @@ (<<<<4, 3>>, <<16, 6>>, <<15, 6>>, <<17, 0>>>> :> <<805977, 762041, 189269156, 100000000>>)
       @@ (<<<<4, 3>>, <<16, 6>>, <<15, 6>>, <<17, 3>>>> :> <<1064868, 727625, 180869934, 100000000>>)
       @@ (<<<<4, 3>>, <<16, 6>>, <<15, 6>>, <<17, 6>>>> :> <<1436870, 750182, 187193310, 100000000>>)
       @@ (<<<<4, 6>>, <<16, 0>>, <<15, 0>>, <<17, 3>>>> :> <<-211730, 829929, 208349203, 100000000>>)
       @@ (<<<<4, 6>>, <<16, 0>>, <<15, 3>>, <<17, 0>>>> :> <<-25847, 825416, 207183930, 100000000>>)
       @@ (<<<<4, 6>>, <<16, 0>>, <<15, 3>>, <<17, 3>>>> :> <<352559, 782218, 195879922, 100000000>>)
       @@ (<<<<4, 6>>, <<16, 0>>, <<15, 3>>, <<17, 6>>>> :> <<725807, 809767, 202852917, 100000000>>)
       @@ (<<<<4, 6>>, <<16, 0>>, <<15, 6>>, <<17, 3>>>> :> <<746293, 832229, 209028669, 100000000>>)
       @@ (<<<<4, 6>>, <<16, 3>>, <<15, 0>>, <<17, 0>>>> :> <<10666, 802041, 200592839, 100000000>>)
       @@ (<<<<4, 6>>, <<16, 3>>, <<15, 0>>, <<17, 3>>>> :> <<366418, 761397, 190106731, 100000000>>)
       @@ (<<<<4, 6>>, <<16, 3>>, <<15, 0>>, <<17, 6>>>> :> <<721102, 788669, 197106914, 100000000>>)
       @@ (<<<<4, 6>>, <<16, 3>>, <<15, 3>>, <<17, 0>>>> :> <<513955, 749793, 187001406, 100000000>>)
       @@ (<<<<4, 6>>, <<16, 3>>, <<15, 3>>, <<17, 3>>>> :> <<788468, 714197, 178029299, 100000000>>)
       @@ (<<<<4, 6>>, <<16, 3>>, <<15, 3>>, <<17, 6>>>> :> <<1127562, 734036, 183059632, 100000000>>)
       @@ (<<<<4, 6>>, <<16, 3>>, <<15, 6>>, <<17, 0>>>> :> <<893409, 792915, 198160972, 100000000>>)
       @@ (<<<<4, 6>>, <<16, 3>>, <<15, 6>>, <<17, 3>>>> :> <<1164211, 752542, 187983662, 100000000>>)
       @@ (<<<<4, 6>>, <<16, 3>>, <<15, 6>>, <<17, 6>>>> :> <<1564275, 768166, 192338531, 100000000>>)
       @@ (<<<<4, 6>>, <<16, 6>>, <<15, 0>>, <<17, 0>>>> :> <<515641, 872118, 219573232, 100000000>>)
       @@ (<<<<4, 6>>, <<16, 6>>, <<15, 0>>, <<17, 3>>>> :> <<876428, 815773, 204502904, 100000000>>)
       @@ (<<<<4, 6>>, <<16, 6>>, <<15, 3>>, <<17, 0>>>> :> <<1026332, 795118, 198749533, 100000000>>)
       @@ (<<<<4, 6>>, <<16, 6>>, <<15, 3>>, <<17, 3>>>> :> <<1286603, 750945, 187486778, 100000000>>)
       @@ (<<<<4, 6>>, <<16, 6>>, <<15, 3>>, <<17, 6>>>> :> <<1687348, 758515, 189642169, 100000000>>)
       @@ (<<<<4, 6>>, <<16, 6>>, <<15, 6>>, <<17, 3>>>> :> <<1755547, 774778, 194217092, 100000000>>)),
      (   (<<<<18, 0>>>> :> <<-1062990, 864833, 214856310, 100000000>>)
       @@ (<<<<18, 3>>>> :> <<-339233, 744340, 182426198, 100000000>>)
       @@ (<<<<18, 6>>>> :> <<660404, 842026, 207299123, 100000000>>)),
      (   (<<<<1, 0>>, <<19, 0>>>> :> <<-1374394, 839789, 209435548, 100000000>>)
       @@ (<<<<1, 0>>, <<19, 3>>>> :> <<-584400, 794514, 197763098, 100000000>>)
       @@ (<<<<1, 0>>, <<19, 6>>>> :> <<-7054, 905086, 227835395, 100000000>>)
       @@ (<<<<1, 3>>, <<19, 0>>>> :> <<-487786, 809079, 201861435, 100000000>>)
       @@ (<<<<1, 3>>, <<19, 3>>>> :> <<79941, 726281, 179937769, 100000000>>)
       @@ (<<<<1, 3>>, <<19, 6>>>> :> <<673562, 793492, 197452251, 100000000>>)
       @@ (<<<<1, 6>>, <<19, 0>>>> :> <<81184, 930785, 234826665, 100000000>>)
       @@ (<<<<1, 6>>, <<19, 3>>>> :> <<660780, 815541, 203597950, 100000000>>)
       @@ (<<<<1, 6>>, <<19, 6>>>> :> <<1500813, 850448, 212892288, 100000000>>)
       @@ (<<<<1, 3>>, <<7, 3>>, <<19, 3>>>> :> <<19219, 671413, 166436413, 100000000>>)
       @@ (<<<<1, 3>>, <<7, 6>>, <<19, 3>>>> :> <<417213, 704767, 174814965, 100000000>>)
       @@ (<<<<7, 3>>, <<1, 3>>, <<19, 3>>>> :> <<19219, 671413, 166436413, 100000000>>)
       @@ (<<<<7, 6>>, <<1, 3>>, <<19, 3>>>> :> <<417213, 704767, 174814965, 100000000>>)
       @@ (<<<<1, 3>>, <<7, 3>>, <<7, 3>>, <<19, 3>>>> :> <<-26864, 626793, 155503568, 100000000>>)
       @@ (<<<<1, 3>>, <<7, 3>>, <<7, 6>>, <<19, 3>>>> :> <<314010, 655665, 162725605, 100000000>>)
       @@ (<<<<1, 3>>, <<7, 6>>, <<7, 3>>, <<19, 3>>>> :> <<314010, 655665, 162725605, 100000000>>)
       @@ (<<<<1, 3>>, <<7, 6>>, <<7, 6>>, <<19, 3>>>> :> <<717032, 685161, 170177317, 100000000>>)
       @@ (<<<<7, 3>>, <<1, 3>>, <<7, 3>>, <<19, 3>>>> :> <<-26864, 626793, 155503568, 100000000>>)
       @@ (<<<<7, 3>>, <<1, 3>>, <<7, 6>>, <<19, 3>>>> :> <<314010, 655665, 162725605, 100000000>>)
       @@ (<<<<7, 3>>, <<7, 3>>, <<1, 3>>, <<19, 3>>>> :> <<-26864, 626793, 155503568, 100000000>>)
       @@ (<<<<7, 3>>, <<7, 6>>, <<1, 3>>, <<19, 3>>>> :> <<314010, 655665, 162725605, 100000000>>)
       @@ (<<<<7, 6>>, <<1, 3>>, <<7, 3>>, <<19, 3>>>> :> <<314010, 655665, 162725605, 100000000>>)
       @@ (<<<<7, 6>>, <<1, 3>>, <<7, 6>>, <<19, 3>>>> :> <<717032, 685161, 170177317, 100000000>>)
       @@ (<<<<7, 6>>, <<7, 3>>, <<1, 3>>, <<19, 3>>>> :> <<314010, 655665, 162725605, 100000000>>)
       @@ (<<<<7, 6>>, <<7, 6>>, <<1, 3>>, <<19, 3>>>> :> <<717032, 685161, 170177317, 100000000>>)),
      (   (<<<<2, 0>>, <<14, 0>>, <<20, 0>>>> :> <<-2368093, 735523, 186598099, 100000000>>)
       @@ (<<<<2, 0>>, <<14, 0>>, <<20, 3>>>> :> <<-1933834, 748023, 187668598, 100000000>>)
       @@ (<<<<2, 0>>, <<14, 0>>, <<20, 6>>>> :> <<-1493244, 840872, 212082689, 100000000>>)
       @@ (<<<<2, 0>>, <<14, 3>>, <<20, 0>>>> :> <<-1708481, 737113, 184414047, 100000000>>)
       @@ (<<<<2, 0>>, <<14, 3>>, <<20, 3>>>> :> <<-1358509, 708753, 176424446, 100000000>>)
       @@ (<<<<2, 0>>, <<14, 3>>, <<20, 6>>>> :> <<-908186, 768345, 191607846, 100000000>>)
       @@ (<<<<2, 0>>, <<14, 6>>, <<20, 0>>>> :> <<-1044138, 881410, 223646904, 100000000>>)
       @@ (<<<<2, 0>>, <<14, 6>>, <<20, 3>>>> :> <<-665773, 824862, 207735526, 100000000>>)
       @@ (<<<<2, 0>>, <<14, 6>>, <<20, 6>>>> :> <<20072, 862299, 216389268, 100000000>>)
       @@ (<<<<2, 3>>, <<14, 0>>, <<20, 0>>>> :> <<-1570692, 690839, 170480974, 100000000>>)
       @@ (<<<<2, 3>>, <<14, 0>>, <<20, 3>>>> :> <<-1274127, 664800, 163872119, 100000000>>)
       @@ (<<<<2, 3>>, <<14, 0>>, <<20, 6>>>> :> <<-869046, 722929, 178714928, 100000000>>)
       @@ (<<<<2, 3>>, <<14, 3>>, <<20, 0>>>> :> <<-1137338, 642973, 158299690, 100000000>>)
       @@ (<<<<2, 3>>, <<14, 3>>, <<20, 3>>>> :> <<-915242, 623333, 153648321, 100000000>>)
       @@ (<<<<2, 3>>, <<14, 3>>, <<20, 6>>>> :> <<-529941, 675148, 166983182, 100000000>>)
       @@ (<<<<2, 3>>, <<14, 6>>, <<20, 0>>>> :> <<-529625, 745324, 185589574, 100000000>>)
       @@ (<<<<2, 3>>, <<14, 6>>, <<20, 3>>>> :> <<-305614, 718005, 179234014, 100000000>>)
       @@ (<<<<2, 3>>, <<14, 6>>, <<20, 6>>>> :> <<250732, 767630, 193152788, 100000000>>)
       @@ (<<<<2, 6>>, <<14, 0>>, <<20, 0>>>> :> <<-537685, 861473, 217766296, 100000000>>)
       @@ (<<<<2, 6>>, <<14, 0>>, <<20, 3>>>> :> <<-243858, 797757, 200265900, 100000000>>)
       @@ (<<<<2, 6>>, <<14, 0>>, <<20, 6>>>> :> <<403749, 804798, 199425860, 100000000>>)
       @@ (<<<<2, 6>>, <<14, 3>>, <<20, 0>>>> :> <<-156706, 759569, 190070906, 100000000>>)
       @@ (<<<<2, 6>>, <<14, 3>>, <<20, 3>>>> :> <<37583, 722060, 180379790, 100000000>>)
       @@ (<<<<2, 6>>, <<14, 3>>, <<20, 6>>>> :> <<590215, 741483, 184155887, 100000000>>)
       @@ (<<<<2, 6>>, <<14, 6>>, <<20, 0>>>> :> <<760206, 771065, 189812978, 100000000>>)
       @@ (<<<<2, 6>>, <<14, 6>>, <<20, 3>>>> :> <<881790, 738318, 182272223, 100000000>>)
       @@ (<<<<2, 6>>, <<14, 6>>, <<20, 6>>>> :> <<1448727, 738364, 182446051, 100000000>>)
       @@ (<<<<14, 3>>, <<2, 3>>, <<20, 3>>>> :> <<-915242, 623333, 153648321, 100000000>>)
       @@ (<<<<14, 6>>, <<2, 3>>, <<20, 3>>>> :> <<-305614, 718005, 179234014, 100000000>>)
       @@ (<<<<2, 3>>, <<14, 3>>, <<14, 3>>, <<20, 3>>>> :> <<-988595, 561576, 138616328, 100000000>>)
       @@ (<<<<2, 3>>, <<14, 3>>, <<14, 6>>, <<20, 3>>>> :> <<-521237, 633682, 157262126, 100000000>>)
       @@ (<<<<2, 3>>, <<14, 6>>, <<14, 3>>, <<20, 3>>>> :> <<-521237, 633682, 157262126, 100000000>>)
       @@ (<<<<2, 3>>, <<14, 6>>, <<14, 6>>, <<20, 3>>>> :> <<152983, 708562, 178188684, 100000000>>)
       @@ (<<<<14, 3>>, <<2, 3>>, <<14, 3>>, <<20, 3>>>> :> <<-988595, 561576, 138616328, 100000000>>)
       @@ (<<<<14, 3>>, <<2, 3>>, <<14, 6>>, <<20, 3>>>> :> <<-521237, 633682, 157262126, 100000000>>)
       @@ (<<<<14, 3>>, <<14, 3>>, <<2, 3>>, <<20, 3>>>> :> <<-988595, 561576, 138616328, 100000000>>)
       @@ (<<<<14, 3>>, <<14, 6>>, <<2, 3>>, <<20, 3>>>> :> <<-521237, 633682, 157262126, 100000000>>)
       @@ (<<<<14, 6>>, <<2, 3>>, <<14, 3>>, <<20, 3>>>> :> <<-521237, 633682, 157262126, 100000000>>)
       @@ (<<<<14, 6>>, <<2, 3>>, <<14, 6>>, <<20, 3>>>> :> <<152983, 708562, 178188684, 100000000>>)
       @@ (<<<<14, 6>>, <<14, 3>>, <<2, 3>>, <<20, 3>>>> :> <<-521237, 633682, 157262126, 100000000>>)
       @@ (<<<<14, 6>>, <<14, 6>>, <<2, 3>>, <<20, 3>>>> :> <<152983, 708562, 178188684, 100000000>>)),
      (   (<<<<21, 0>>>> :> <<-1022350, 917210, 230278534, 100000000>>)
       @@ (<<<<21, 3>>>> :> <<-265122, 794397, 196291268, 100000000>>)
       @@ (<<<<21, 6>>>> :> <<806122, 882302, 219222921, 100000000>>)),
      (   (<<<<22, 0>>>> :> <<-770207, 945337, 237310558, 100000000>>)
       @@ (<<<<22, 3>>>> :> <<-246110, 858451, 213589808, 100000000>>)
       @@ (<<<<22, 6>>>> :> <<570512, 919219, 229382494, 100000000>>)),
      (   (<<<<1, 0>>, <<19, 0>>, <<23, 0>>>> :> <<-1759564, 776106, 193801501, 100000000>>)
       @@ (<<<<1, 0>>, <<19, 0>>, <<23, 3>>>> :> <<-1132681, 764889, 190608401, 100000000>>)
       @@ (<<<<1, 0>>, <<19, 0>>, <<23, 6>>>> :> <<-768147, 846495, 212041489, 100000000>>)
       @@ (<<<<1, 0>>, <<19, 3>>, <<23, 0>>>> :> <<-1011944, 759625, 189241646, 100000000>>)
       @@ (<<<<1, 0>>, <<19, 3>>, <<23, 3>>>> :> <<-502396, 714561, 177564455, 100000000>>)
       @@ (<<<<1, 0>>, <<19, 3>>, <<23, 6>>>> :> <<-90064, 774891, 193225869, 100000000>>)
       @@ (<<<<1, 0>>, <<19, 6>>, <<23, 0>>>> :> <<-602554, 856673, 214715180, 100000000>>)
       @@ (<<<<1, 0>>, <<19, 6>>, <<23, 3>>>> :> <<-41572, 794069, 198402782, 100000000>>)
       @@ (<<<<1, 0>>, <<19, 6>>, <<23, 6>>>> :> <<565526, 859603, 216064581, 100000000>>)
       @@ (<<<<1, 3>>, <<19, 0>>, <<23, 0>>>> :> <<-940372, 778499, 194717132, 100000000>>)
       @@ (<<<<1, 3>>, <<19, 0>>, <<23, 3>>>> :> <<-420277, 724378, 180191216, 100000000>>)
       @@ (<<<<1, 3>>, <<19, 0>>, <<23, 6>>>> :> <<13287, 779234, 194196206, 100000000>>)
       @@ (<<<<1, 3>>, <<19, 3>>, <<23, 0>>>> :> <<-327786, 712029, 176857798, 100000000>>)
       @@ (<<<<1, 3>>, <<19, 3>>, <<23, 3>>>> :> <<42460, 661446, 163935353, 100000000>>)
       @@ (<<<<1, 3>>, <<19, 3>>, <<23, 6>>>> :> <<458292, 702630, 174345739, 100000000>>)
       @@ (<<<<1, 3>>, <<19, 6>>, <<23, 0>>>> :> <<158547, 780497, 194542674, 100000000>>)
       @@ (<<<<1, 3>>, <<19, 6>>, <<23, 3>>>> :> <<520247, 717749, 178404145, 100000000>>)
       @@ (<<<<1, 3>>, <<19, 6>>, <<23, 6>>>> :> <<1065285, 753685, 187655896, 100000000>>)
       @@ (<<<<1, 6>>, <<19, 0>>, <<23, 0>>>> :> <<-555396, 882989, 221997369, 100000000>>)
       @@ (<<<<1, 6>>, <<19, 0>>, <<23, 3>>>> :> <<25439, 812762, 203202747, 100000000>>)
       @@ (<<<<1, 6>>, <<19, 0>>, <<23, 6>>>> :> <<670434, 874310, 219683708, 100000000>>)
       @@ (<<<<1, 6>>, <<19, 3>>, <<23, 0>>>> :> <<121884, 795814, 198644344, 100000000>>)
       @@ (<<<<1, 6>>, <<19, 3>>, <<23, 3>>>> :> <<502319, 733633, 182622219, 100000000>>)
       @@ (<<<<1, 6>>, <<19, 3>>, <<23, 6>>>> :> <<1074143, 774372, 193504674, 100000000>>)
       @@ (<<<<1, 6>>, <<19, 6>>, <<23, 0>>>> :> <<855797, 869270, 218456966, 100000000>>)
       @@ (<<<<1, 6>>, <<19, 6>>, <<23, 3>>>> :> <<1175256, 787394, 197159700, 100000000>>)
       @@ (<<<<1, 6>>, <<19, 6>>, <<23, 6>>>> :> <<1846468, 779637, 195293181, 100000000>>)
       @@ (<<<<1, 3>>, <<7, 3>>, <<19, 3>>, <<23, 3>>>> :> <<-5296, 618634, 153470624, 100000000>>)
       @@ (<<<<1, 3>>, <<7, 6>>, <<19, 3>>, <<23, 3>>>> :> <<327979, 646315, 160402887, 100000000>>)
       @@ (<<<<1, 3>>, <<19, 3>>, <<7, 3>>, <<23, 3>>>> :> <<-5296, 618634, 153470624, 100000000>>)
       @@ (<<<<1, 3>>, <<19, 3>>, <<7, 6>>, <<23, 3>>>> :> <<327979, 646315, 160402887, 100000000>>)
       @@ (<<<<7, 3>>, <<1, 3>>, <<19, 3>>, <<23, 3>>>> :> <<-5296, 618634, 153470624, 100000000>>)
       @@ (<<<<7, 6>>, <<1, 3>>, <<19, 3>>, <<23, 3>>>> :> <<327979, 646315, 160402887, 100000000>>)),
      (   (<<<<18, 3>>, <<24, 0>>>> :> <<-831555, 694671, 170689515, 100000000>>)
       @@ (<<<<18, 3>>, <<24, 3>>>> :> <<-363557, 641930, 157615056, 100000000>>)
       @@ (<<<<18, 3>>, <<24, 6>>>> :> <<137361, 723010, 179203870, 100000000>>)
       @@ (<<<<18, 6>>, <<24, 0>>>> :> <<-66168, 813275, 202013637, 100000000>>)
       @@ (<<<<18, 6>>, <<24, 3>>>> :> <<361949, 719187, 177041699, 100000000>>)
       @@ (<<<<18, 6>>, <<24, 6>>>> :> <<1075705, 773334, 190818040, 100000000>>)
       @@ (<<<<18, 0>>, <<12, 0>>, <<24, 0>>>> :> <<-1985286, 695042, 172303885, 100000000>>)
       @@ (<<<<18, 0>>, <<12, 0>>, <<24, 3>>>> :> <<-1339213, 687115, 170410923, 100000000>>)
       @@ (<<<<18, 0>>, <<12, 0>>, <<24, 6>>>> :> <<-990828, 779570, 194756505, 100000000>>)
       @@ (<<<<18, 0>>, <<12, 3>>, <<24, 0>>>> :> <<-1374523, 674804, 166861761, 100000000>>)
       @@ (<<<<18, 0>>, <<12, 3>>, <<24, 3>>>> :> <<-841415, 638405, 158171280, 100000000>>)
       @@ (<<<<18, 0>>, <<12, 3>>, <<24, 6>>>> :> <<-447460, 713313, 177773650, 100000000>>)
       @@ (<<<<18, 0>>, <<12, 6>>, <<24, 0>>>> :> <<-957555, 772764, 192988811, 100000000>>)
       @@ (<<<<18, 0>>, <<12, 6>>, <<24, 3>>>> :> <<-368974, 710361, 176973981, 100000000>>)
       @@ (<<<<18, 0>>, <<12, 6>>, <<24, 6>>>> :> <<236511, 785455, 196489118, 100000000>>))>>

\* the same quadrature of the fallback branch: the prior density on the
\* grid, normalized
GridPrior == <<0, 999464, 99993651, 100000000>>

-----------------------------------------------------------------------------
(* Python semantics used by the code *)

\* `x or default`: None and 0 / 0.0 are falsy.
PyOr(x, default) == IF x = None \/ x = 0 THEN default ELSE x

\* seq[i] on a sequence of length n: negative i counts from the end,
\* anything else raises IndexError (None here).
PyIndex(i, n) ==
    IF 0 <= i /\ i < n THEN i
    ELSE IF -n <= i /\ i < 0 THEN i + n
    ELSE None

RECURSIVE SumSeq(_)
SumSeq(s) == IF s = <<>> THEN 0 ELSE Head(s) + SumSeq(Tail(s))

-----------------------------------------------------------------------------
(* services/irt_engine.py *)

\* IRTEngine.item_fisher_information(item_number, theta)
item_fisher_information(item_number, theta) ==
    FisherInformation[item_number][theta]

\* IRTEngine.likelihood: probs[response - 1] over the 7 category
\* probabilities; the category (0..6) read, or None for IndexError.
likelihood_category(response) == PyIndex(response - 1, 7)

\* IRTEngine.theta_to_likert_scale with the default scale 1..7:
\* 1 + (theta + 3) / 6 * 6, clipped to [1, 7]
theta_to_likert_scale(theta) ==
    LET likert == 1000000 + ((theta + 3000000) * 6) \div 6
    IN  IF likert < 1000000 THEN 1000000
        ELSE IF likert > 7000000 THEN 7000000
        ELSE likert

-----------------------------------------------------------------------------
(* services/bayesian_updater.py *)

\* variant: the response is used as given, whatever the item's direction
effective_response_raw(reverse_scored, response) == response

\* `effective_response = response; if item["reverse_scored"]: ... = 8 - response`
effective_response(reverse_scored, response) ==
    IF reverse_scored THEN 8 - response ELSE response

\* item["reverse_scored"] of the bank
reverse_scored_items == [n \in 1..24 |-> MINI_IPIP6_ITEMS[n].reverse_scored]

\* BayesianUpdater.initialize_trait_states
TraitState(trait) ==
    [trait |-> trait,
     theta_estimate |-> prior_mean,
     standard_error |-> prior_sd,
     posterior_mean |-> prior_mean,
     posterior_sd |-> prior_sd,
     responses |-> <<>>,
     items_used |-> <<>>,
     total_information |-> 0]

initialize_trait_states == [t \in TraitSet |-> TraitState(t)]

\* variant: the density is returned as exponentiated, without the division
unnormalized_integral(normalizing_constant, integral) == normalizing_constant

\* `posterior = posterior / normalizing_constant` (in the fallback branch
\* `posterior / trapz_func(posterior, self.theta_grid)`): the trapezoid
\* integral of the density after the division, in units of 1e-8
normalized_integral(normalizing_constant, integral) == integral

\* what compute_posterior returns: posterior_mean, posterior_sd and, of the
\* density array, its trapezoid integral over the grid
posterior_moments(row) ==
    [raised |-> "none", mean |-> row[1], sd |-> row[2],
     integral |-> normalized_integral(row[3], row[4])]

\* `if normalizing_constant > 0: ... else:` the prior density.  A nan
\* log-likelihood makes every entry of the posterior and the normalizing
\* constant nan, and `nan > 0` is false.
normalize_or_fall_back(is_nan, row) ==
    IF ~is_nan /\ row[3] > 0
    THEN posterior_moments(row)
    ELSE posterior_moments(GridPrior)

\* BayesianUpdater.compute_posterior over a bank whose items have the
\* alpha and beta of MINI_IPIP6_ITEMS and the given reverse_scored flags:
\* the posterior mean and sd, or the exception a likelihood evaluation raises.
compute_posterior_items(responses, reverse_scored) ==
    LET cats == [i \in 1..Len(responses) |->
                   likelihood_category(
                     effective_response(reverse_scored[responses[i][1]],
                                        responses[i][2]))]
        key == [i \in 1..Len(responses) |-> <<responses[i][1], cats[i]>>]
    IN  IF \E i \in 1..Len(responses) :
              cats[i] = None /\ responses[i][1] \notin irt_nan_items
        THEN [raised |-> "IndexError", mean |-> None, sd |-> None, integral |-> None]
        ELSE normalize_or_fall_back(
                \E i \in 1..Len(responses) : responses[i][1] \in irt_nan_items,
                GridPosterior[responses[Len(responses)][1]][key])

\* BayesianUpdater.compute_posterior(responses, trait)
compute_posterior(responses, trait) ==
    compute_posterior_items(responses, reverse_scored_items)

\* variant: the information of the item just administered alone
last_item_information(items_used, theta) ==
    item_fisher_information(items_used[Len(items_used)], theta)

\* `sum(self.irt.item_fisher_information(item_num, post_mean)
\*      for item_num in trait_state.items_used)`
sum_item_information(items_used, theta) ==
    SumSeq([i \in 1..Len(items_used) |-> item_fisher_information(items_used[i], theta)])

\* BayesianUpdater.update_trait_state: the trait state is mutated in place,
\* so the two appends (append_response) survive an exception raised by
\* compute_posterior; store_posterior is the part after compute_posterior.
store_posterior(appended, post) ==
    IF post.raised # "none"
    THEN [raised |-> post.raised, trait_state |-> appended]
    ELSE [raised |-> "none",
          trait_state |->
            [appended EXCEPT
               !.theta_estimate = post.mean,
               !.standard_error = post.sd,
               !.posterior_mean = post.mean,
               !.posterior_sd = post.sd,
               !.total_information =
                   sum_item_information(appended.items_used, post.mean)]]

append_response(trait_state, item_number, response) ==
    [trait_state EXCEPT
       !.responses = Append(@, <<item_number, response>>),
       !.items_used = Append(@, item_number)]

update_trait_state(trait_state, item_number, response) ==
    store_posterior(
        append_response(trait_state, item_number, response),
        compute_posterior(Append(trait_state.responses, <<item_number, response>>),
                          trait_state.trait))

-----------------------------------------------------------------------------
(* services/dose_algorithm.py *)

\* DOSEAlgorithm.__init__
init_se_threshold(arg) == PyOr(arg, DOSE_SE_THRESHOLD)
init_max_items_per_trait(arg) == PyOr(arg, DOSE_MAX_ITEMS_PER_TRAIT)

\* DOSEAlgorithm.initialize_session
initialize_session ==
    [trait_states |-> initialize_trait_states,
     administered_items |-> <<>>,
     traits_completed |-> [t \in TraitSet |-> FALSE],
     total_items |-> 0,
     current_trait_index |-> 0]

\* variant: the items already administered are not filtered out
available_items_unfiltered(trait_state, trait) == TRAIT_ITEMS[trait]

\* select_next_item: the trait's items not yet in items_used, bank order
available_items(trait_state, trait) ==
    SelectSeq(TRAIT_ITEMS[trait],
              LAMBDA n : \A i \in 1..Len(trait_state.items_used) :
                            trait_state.items_used[i] # n)

\* variant: the last key whose information is maximal
last_maximum(info) ==
    CHOOSE i \in 1..Len(info) :
        /\ \A j \in 1..Len(info) : info[j] <= info[i]
        /\ \A j \in (i + 1)..Len(info) : info[j] < info[i]

\* max(item_info, key=item_info.get): the first key, in insertion order,
\* whose information is maximal (its index)
first_maximum(info) ==
    CHOOSE i \in 1..Len(info) :
        /\ \A j \in 1..Len(info) : info[j] <= info[i]
        /\ \A j \in 1..(i - 1) : info[j] < info[i]

\* `best_item = max(item_info, key=item_info.get)`: item_info maps the
\* available items, inserted in the order of available_items, to their information
best_item(available, item_info) ==
    available[first_maximum([i \in 1..Len(available) |-> item_info[available[i]]])]

\* core/mini_ipip6_data.py get_highest_discrimination_item: the first item of
\* the trait, in bank order and outside `exclude`, whose alpha is maximal
highest_alpha_item(items) ==
    IF items = <<>> THEN None
    ELSE items[first_maximum([i \in 1..Len(items) |-> MINI_IPIP6_ITEMS[items[i]].alpha])]

get_highest_discrimination_item(trait, exclude) ==
    highest_alpha_item(
        SelectSeq(TRAIT_ITEMS[trait],
                  LAMBDA n : \A i \in 1..Len(exclude) : exclude[i] # n))

\* DOSEAlgorithm.select_starting_items
select_starting_items ==
    [t \in TraitSet |-> get_highest_discrimination_item(t, <<>>)]

\* variant: the first available item is taken, whatever its information
first_available_item(available, theta) == available[1]

\* `item_info[item_num] = item_fisher_information(item_num, current_theta)`
\* for the available items, then the max
max_information_item(available, theta) ==
    best_item(available,
              [n \in {available[i] : i \in 1..Len(available)} |->
                  item_fisher_information(n, theta)])

\* variant: once a trait of the session is completed, the first available
\* item is taken
select_next_item_after_completion(st, trait) ==
    IF available_items(st.trait_states[trait], trait) = <<>> THEN None
    ELSE IF \E u \in TraitSet : st.traits_completed[u]
    THEN first_available_item(available_items(st.trait_states[trait], trait),
                              st.trait_states[trait].theta_estimate)
    ELSE max_information_item(available_items(st.trait_states[trait], trait),
                              st.trait_states[trait].theta_estimate)

\* DOSEAlgorithm.select_next_item
select_next_item(st, trait) ==
    IF available_items(st.trait_states[trait], trait) = <<>> THEN None
    ELSE max_information_item(available_items(st.trait_states[trait], trait),
                              st.trait_states[trait].theta_estimate)

\* variant: the test without the cap on the items of a trait
stopping_criterion_se_only(trait_state) ==
    trait_state.standard_error < se_threshold

\* the stopping test of process_response
stopping_criterion(trait_state) ==
    \/ trait_state.standard_error < se_threshold
    \/ Len(trait_state.items_used) >= max_items_per_trait

\* variant: when the test succeeds every trait is marked
mark_completed_all(traits_completed, trait, stop) ==
    IF stop THEN [t \in DOMAIN traits_completed |-> TRUE] ELSE traits_completed

\* variant: the outcome of the test is stored, `traits_completed[trait] = stop`
mark_completed_assign(traits_completed, trait, stop) ==
    [traits_completed EXCEPT ![trait] = stop]

\* `if stop: state.traits_completed[trait] = True`
mark_completed(traits_completed, trait, stop) ==
    IF stop THEN [traits_completed EXCEPT ![trait] = TRUE] ELSE traits_completed

\* variant: the administration is counted twice
next_total_items_twice(total_items) == total_items + 2

\* `state.total_items += 1`
next_total_items(total_items) == total_items + 1

\* variant: the ordinal counts from 0
presentation_order_from_zero(total_items) == total_items

\* `presentation_order=state.total_items + 1`
presentation_order(total_items) == total_items + 1

\* DOSEAlgorithm.process_response from `trait = item["trait"]` on: the state
\* after the call and the exception raised by it ("none": it returned).
\* process_known_item evaluates fisher_info at theta_before and the update
\* (upd); record_response is the code after the update: the history record,
\* total_items and the stopping test.
record_response(st, item_number, response, trait, before, fisher_info, upd) ==
    IF upd.raised # "none"
    THEN [raised |-> upd.raised,
          state |-> [st EXCEPT !.trait_states[trait] = upd.trait_state]]
    ELSE [raised |-> "none",
          state |-> [st EXCEPT
              !.trait_states[trait] = upd.trait_state,
              !.administered_items =
                  Append(@, [item_number |-> item_number,
                             trait |-> trait,
                             response |-> response,
                             theta_before |-> before.theta_estimate,
                             theta_after |-> upd.trait_state.theta_estimate,
                             se_before |-> before.standard_error,
                             se_after |-> upd.trait_state.standard_error,
                             fisher_information |-> fisher_info,
                             presentation_order |-> presentation_order(st.total_items)]),
              !.total_items = next_total_items(@),
              !.traits_completed =
                  mark_completed(@, trait, stopping_criterion(upd.trait_state))]]

process_known_item(st, item_number, response) ==
    record_response(
        st, item_number, response,
        MINI_IPIP6_ITEMS[item_number].trait,
        st.trait_states[MINI_IPIP6_ITEMS[item_number].trait],
        item_fisher_information(
            item_number,
            st.trait_states[MINI_IPIP6_ITEMS[item_number].trait].theta_estimate),
        update_trait_state(st.trait_states[MINI_IPIP6_ITEMS[item_number].trait],
                           item_number, response))

\* variant: `MINI_IPIP6_ITEMS.get(item_number)` and an early return of the
\* state when the item is not found
process_response_lenient(st, item_number, response) ==
    IF item_number \notin DOMAIN MINI_IPIP6_ITEMS
    THEN [raised |-> "none", state |-> st]
    ELSE process_known_item(st, item_number, response)

\* DOSEAlgorithm.process_response: `item = MINI_IPIP6_ITEMS[item_number]`
\* raises KeyError, before anything is changed, for an id not in the bank.
process_response(st, item_number, response) ==
    IF item_number \notin DOMAIN MINI_IPIP6_ITEMS
    THEN [raised |-> "KeyError", state |-> st]
    ELSE process_known_item(st, item_number, response)

\* DOSEAlgorithm._get_current_estimates
get_current_estimates(st) ==
    [t \in TraitSet |->
        [theta |-> st.trait_states[t].theta_estimate,
         se |-> st.trait_states[t].standard_error,
         items_administered |-> Len(st.trait_states[t].items_used),
         completed |-> st.traits_completed[t]]]

\* variant: the share of the 24 items that was administered
item_reduction_rate_administered(total_items) == (total_items * 1000000) \div 24

\* `1 - (state.total_items / 24)`, six decimals
item_reduction_rate(total_items) == 1000000 - (total_items * 1000000) \div 24

\* DOSEAlgorithm.get_final_results (item_text is not modelled)
get_final_results(st) ==
    [trait_estimates |->
        [t \in TraitSet |->
            [theta |-> st.trait_states[t].theta_estimate,
             standard_error |-> st.trait_states[t].standard_error,
             likert_score |-> theta_to_likert_scale(st.trait_states[t].theta_estimate),
             items_administered |-> Len(st.trait_states[t].items_used),
             items_used |-> st.trait_states[t].items_used,
             total_information |-> st.trait_states[t].total_information]],
     total_items_administered |-> st.total_items,
     item_reduction_rate |-> item_reduction_rate(st.total_items),
     item_history |-> st.administered_items]

\* TraitState.to_dict
trait_state_to_dict(trait_state) ==
    [trait |-> trait_state.trait,
     theta_estimate |-> trait_state.theta_estimate,
     standard_error |-> trait_state.standard_error,
     posterior_mean |-> trait_state.posterior_mean,
     posterior_sd |-> trait_state.posterior_sd,
     responses |-> trait_state.responses,
     items_used |-> trait_state.items_used,
     total_information |-> trait_state.total_information]

\* DOSESessionState.to_dict: the history entries carry no theta_before and
\* se_before, and current_trait_index is not written
to_dict(st) ==
    [trait_states |-> [t \in TraitSet |-> trait_state_to_dict(st.trait_states[t])],
     traits_completed |-> st.traits_completed,
     total_items |-> st.total_items,
     administered_items |->
        [i \in 1..Len(st.administered_items) |->
            [item_number |-> st.administered_items[i].item_number,
             trait |-> st.administered_items[i].trait,
             response |-> st.administered_items[i].response,
             theta_after |-> st.administered_items[i].theta_after,
             se_after |-> st.administered_items[i].se_after,
             fisher_information |-> st.administered_items[i].fisher_information,
             presentation_order |-> st.administered_items[i].presentation_order]]]

\* routers/dose_chatbot.py save_dose_state: `session.dose_state =
\* dose_state.to_dict()`.  The column is <<>> for None, <<d>> for a dictionary d.
save_dose_state(st) == <<to_dict(st)>>

\* routers/dose_chatbot.py load_dose_state:
\* `DOSESessionState.from_dict(session.dose_state)`.  The dataclass defines
\* to_dict only, so the attribute lookup raises AttributeError.
load_dose_state(session_dose_state) ==
    IF session_dose_state = <<>>
    THEN [raised |-> "ValueError", state |-> <<>>]
    ELSE [raised |-> "AttributeError", state |-> <<>>]

\* variant: `any(...)` in place of `all(...)`
any_completed(st) == \E t \in TraitSet : st.traits_completed[t]

\* `all(state.traits_completed.values())`
all_completed(st) == \A t \in TraitSet : st.traits_completed[t]

\* `[t for t in TRAITS if not state.traits_completed[t]]`
incomplete_traits(st) ==
    SelectSeq(TRAITS, LAMBDA t : ~st.traits_completed[t])

\* variant: the index is taken from the state's current_trait_index field
round_robin_index_field(total_items, n) == state.current_trait_index % n

\* `state.total_items % len(incomplete_traits)`
round_robin_index(total_items, n) == total_items % n

\* DOSEAlgorithm.get_next_action: the dict returned and the state after the
\* call (the no-items-left branch sets traits_completed and recurses).
present_item(st, next_trait, next_item) ==
    [action |-> "present_item",
     item_number |-> next_item,
     trait |-> next_trait,
     current_theta |-> st.trait_states[next_trait].theta_estimate,
     current_se |-> st.trait_states[next_trait].standard_error,
     current_estimates |-> get_current_estimates(st),
     progress |->
        [items_administered |-> st.total_items,
         traits_completed |-> Cardinality({t \in TraitSet : st.traits_completed[t]}),
         total_traits |-> Len(TRAITS)]]

\* `next_trait = incomplete_traits[trait_index]`
next_trait_of(st) ==
    incomplete_traits(st)[round_robin_index(st.total_items,
                                            Len(incomplete_traits(st))) + 1]

RECURSIVE get_next_action(_)
RECURSIVE present_or_recurse(_, _, _)

get_next_action(st) ==
    IF all_completed(st)
    THEN [action |-> [action |-> "complete",
                      current_estimates |-> get_current_estimates(st),
                      total_items |-> st.total_items],
          state |-> st]
    ELSE present_or_recurse(st, next_trait_of(st),
                            select_next_item(st, next_trait_of(st)))

\* get_next_action after select_next_item
present_or_recurse(st, next_trait, next_item) ==
    IF next_item = None
    THEN get_next_action([st EXCEPT !.traits_completed[next_trait] = TRUE])
    ELSE [action |-> present_item(st, next_trait, next_item), state |-> st]

-----------------------------------------------------------------------------
(* The host: construction, then calls on the algorithm *)

\* answers of the session so far that are not the midpoint
Varied == Cardinality({i \in 1..Len(state.administered_items) :
                          state.administered_items[i].response # Neutral})

\* construction of the algorithm and of the one session of Spec and SpecCore
InitAlgorithm ==
    /\ init_args \in [se_threshold : SeThresholdArgs, max_items_per_trait : MaxItemsArgs]
    /\ se_threshold = init_se_threshold(init_args.se_threshold)
    /\ max_items_per_trait = init_max_items_per_trait(init_args.max_items_per_trait)
    /\ state = initialize_session
    /\ last_action = [action |-> "none"]
    /\ last_call = [op |-> "initialize_session", item_number |-> None,
                    response |-> None, raised |-> "none"]
    /\ direct_calls = 0

\* no session of a host serving several exists yet
NoSessions ==
    /\ objects = <<>>
    /\ sessions = [s \in {} |-> 0]
    /\ alone = [s \in {} |-> 0]

\* no selection over given item_info is under way
NoSelection == selection = [trait |-> "none"]

\* the updater works with the module-level irt_engine
StockEngine == irt_nan_items = {}

\* no call of the scorer or of a conversion is under way, no participant
\* is registered
NoStudy ==
    /\ evaluation = [op |-> "none"]
    /\ participants = <<>>
    /\ helper_call = [op |-> "none"]
    /\ requests = <<>>

Init ==
    /\ InitAlgorithm
    /\ StockEngine
    /\ NoSessions
    /\ NoSelection
    /\ NoStudy

\* the host calls get_next_action(state)
Returned(r) ==
    /\ last_action' = r.action
    /\ state' = r.state

GetNextAction ==
    /\ Returned(get_next_action(state))
    /\ last_call' = [op |-> "get_next_action", item_number |-> None,
                     response |-> None, raised |-> "none"]
    /\ UNCHANGED <<init_args, se_threshold, max_items_per_trait, direct_calls>>
    /\ UNCHANGED <<session_vars, selection, irt_nan_items, study_vars>>

\* the host calls process_response(state, item_number, response)
Processed(item_number, response, r) ==
    /\ state' = r.state
    /\ last_call' = [op |-> "process_response", item_number |-> item_number,
                     response |-> response, raised |-> r.raised]

ProcessResponse(item_number, response) ==
    /\ Processed(item_number, response, process_response(state, item_number, response))
    /\ UNCHANGED <<init_args, se_threshold, max_items_per_trait, last_action>>
    /\ UNCHANGED <<session_vars, selection, irt_nan_items, study_vars>>

\* the respondent answers the item just presented
Respond(response) ==
    /\ last_call.op = "get_next_action"
    /\ last_action.action = "present_item"
    /\ response # Neutral => Varied < MaxVaried
    /\ ProcessResponse(last_action.item_number, response)
    /\ UNCHANGED direct_calls

\* a host passes an item and a response of its own
DirectProcessResponse(item_number, response) ==
    /\ direct_calls < MaxDirect
    /\ direct_calls' = direct_calls + 1
    /\ ProcessResponse(item_number, response)

Next ==
    \/ GetNextAction
    \/ \E response \in Responses : Respond(response)

Spec == Init /\ [][Next]_vars

\* the algorithm as the router builds it, `DOSEAlgorithm()`: no argument is
\* passed
InitDefault ==
    /\ Init
    /\ init_args.se_threshold = None

SpecDefault == InitDefault /\ [][Next]_vars

\* the host has received the Complete action
SessionOver == last_call.op = "get_next_action" /\ last_action.action = "complete"

\* <<Next>>_vars is enabled exactly until the Complete action is received
DrivingEnabled == (ENABLED <<Next>>_vars) <=> ~SessionOver

\* the host keeps driving the session: after a response it asks for the
\* next action, and an item presented is answered.  This is WF_vars(Next),
\* written out with ~SessionOver for ENABLED <<Next>>_vars (DrivingEnabled).
Driven == []<>SessionOver \/ []<><<Next>>_vars

SpecLive == Init /\ [][Next]_vars /\ Driven

\* construction with `bayesian=BayesianUpdater(irt=engine)`, where the engine
\* is the module-level one or an IRTEngine whose log_likelihood returns nan
\* on the items of one set
InitFault ==
    /\ InitAlgorithm
    /\ irt_nan_items \in {{}} \cup {{item_number} : item_number \in FaultyItems}
    /\ NoSessions
    /\ NoSelection
    /\ NoStudy

SpecFault == InitFault /\ [][Next]_vars

NextCore ==
    \/ GetNextAction
    \/ Respond(Neutral)
    \/ \E item_number \in DirectItems, response \in DirectResponses :
          DirectProcessResponse(item_number, response)

SpecCore == Init /\ [][NextCore]_vars


-----------------------------------------------------------------------------
(* A host serving several sessions with one algorithm: every TraitState is  *)
(* an object, a session's trait_states hold object ids                      *)

algorithm_vars == <<init_args, se_threshold, max_items_per_trait, state,
                    last_action, last_call, direct_calls, irt_nan_items>>

\* position of a trait in TRAITS
trait_position(t) == CHOOSE i \in 1..Len(TRAITS) : TRAITS[i] = t

\* variant: every call hands out the objects created by the first call
shared_trait_state_ids(objs) == [t \in TraitSet |-> trait_position(t)]

\* initialize_trait_states builds one new TraitState(...) per trait on every
\* call (its lists come from default_factory): the ids of the new objects
new_trait_state_ids(objs) == [t \in TraitSet |-> Len(objs) + trait_position(t)]

\* the session state of s with the TraitState objects in place of their ids
session_state(s) ==
    [sessions[s].state EXCEPT
        !.trait_states = [t \in TraitSet |-> objects[sessions[s].state.trait_states[t]]]]

\* initialize_session for session s
StartSession(s) ==
    /\ s \notin DOMAIN sessions
    /\ objects' = objects \o [i \in 1..Len(TRAITS) |-> TraitState(TRAITS[i])]
    /\ sessions' = sessions @@
          (s :> [state |-> [initialize_session EXCEPT
                              !.trait_states = new_trait_state_ids(objects)],
                 last_action |-> [action |-> "none"]])
    /\ alone' = alone @@
          (s :> [state |-> initialize_session, last_action |-> [action |-> "none"]])
    /\ UNCHANGED <<algorithm_vars, selection, study_vars>>

\* get_next_action(state of s) returned r, the same call on its own returned r_alone
SessionReturned(s, r, r_alone) ==
    /\ sessions' = [sessions EXCEPT
          ![s] = [state |-> [sessions[s].state EXCEPT
                                !.traits_completed = r.state.traits_completed],
                  last_action |-> r.action]]
    /\ alone' = [alone EXCEPT
          ![s] = [state |-> r_alone.state, last_action |-> r_alone.action]]

SessionGetNextAction(s) ==
    /\ s \in DOMAIN sessions
    /\ sessions[s].last_action.action = "none"
    /\ SessionReturned(s, get_next_action(session_state(s)),
                       get_next_action(alone[s].state))
    /\ UNCHANGED <<algorithm_vars, objects, selection, study_vars>>

\* process_response(state of s, item_number, response) ended with r: the
\* TraitState object of the item's trait was updated in place
SessionProcessed(s, trait, r, r_alone) ==
    /\ objects' = [objects EXCEPT
          ![sessions[s].state.trait_states[trait]] = r.state.trait_states[trait]]
    /\ sessions' = [sessions EXCEPT
          ![s] = [state |-> [r.state EXCEPT
                                !.trait_states = sessions[s].state.trait_states],
                  last_action |-> [action |-> "none"]]]
    /\ alone' = [alone EXCEPT
          ![s] = [state |-> r_alone.state, last_action |-> [action |-> "none"]]]

\* the respondent of session s answers the item presented to it
SessionRespond(s) ==
    /\ s \in DOMAIN sessions
    /\ sessions[s].last_action.action = "present_item"
    /\ SessionProcessed(
          s, sessions[s].last_action.trait,
          process_response(session_state(s), sessions[s].last_action.item_number,
                           SessionResponse[s]),
          process_response(alone[s].state, sessions[s].last_action.item_number,
                           SessionResponse[s]))
    /\ UNCHANGED <<algorithm_vars, selection, study_vars>>

NextSessions ==
    \E s \in SessionIds :
        \/ StartSession(s)
        \/ SessionGetNextAction(s)
        \/ SessionRespond(s)

SpecSessions == Init /\ [][NextSessions]_vars

-----------------------------------------------------------------------------
(* select_next_item over given information values *)

\* the items of a trait, as a set
trait_item_set(t) == {TRAIT_ITEMS[t][i] : i \in 1..Len(TRAIT_ITEMS[t])}

\* a trait, the items of it already used (in bank order) and an item_info
\* value for each item of the trait
SelectionInputs ==
    UNION {
        {[trait |-> t,
          items_used |-> SelectSeq(TRAIT_ITEMS[t], LAMBDA n : n \in used),
          item_info |-> info,
          best_item |-> None] :
            used \in SUBSET trait_item_set(t),
            info \in [trait_item_set(t) -> 0..MaxInfo]} :
        t \in TraitSet}

\* a session with the default configuration, or one selection to make
InitSelect ==
    /\ InitAlgorithm
    /\ init_args.se_threshold = None
    /\ StockEngine
    /\ NoSessions
    /\ NoStudy
    /\ selection \in SelectionInputs \cup {[trait |-> "none"]}

Select ==
    /\ selection.trait \in TraitSet
    /\ selection.best_item = None
    /\ available_items([items_used |-> selection.items_used], selection.trait) # <<>>
    /\ selection' = [selection EXCEPT
          !.best_item =
              best_item(available_items([items_used |-> selection.items_used],
                                        selection.trait),
                        selection.item_info)]
    /\ UNCHANGED <<algorithm_vars, session_vars, study_vars>>

NextSelect ==
    \/ Select
    \/ NoSelection /\ Next

SpecSelect == InitSelect /\ [][NextSelect]_vars

-----------------------------------------------------------------------------
(* core/mini_ipip6_data.py, services/scoring_service.py: classical scoring *)

\* x / n of two integers as a float, six decimals
Quotient(x, n) == (2 * x * 1000000 + n) \div (2 * n)

\* reverse_score
reverse_score(response) == 8 - response

\* variant: the response is scored as given, whatever the item's direction
score_response_raw(item_number, response) == response

\* score_response
score_response(item_number, response) ==
    IF MINI_IPIP6_ITEMS[item_number].reverse_scored
    THEN reverse_score(response)
    ELSE response

\* calculate_trait_score: `scores`, the scored responses of the trait's items
\* that are in `responses` (a dict: a function on the items answered)
trait_scores(responses, trait_items) ==
    [i \in 1..Len(trait_items) |-> score_response(trait_items[i], responses[trait_items[i]])]

\* calculate_trait_score: (0.0, 0) without scores, else (sum / len, len)
average_score(scores) ==
    IF scores = <<>> THEN <<0, 0>>
    ELSE <<Quotient(SumSeq(scores), Len(scores)), Len(scores)>>

calculate_trait_score(responses, trait) ==
    average_score(
        trait_scores(responses,
                     SelectSeq(TRAIT_ITEMS[trait], LAMBDA n : n \in DOMAIN responses)))

\* one entry of the dict calculate_all_trait_scores returns
trait_result(score_and_num) ==
    [score |-> score_and_num[1],
     num_items |-> score_and_num[2],
     complete |-> score_and_num[2] = 4]

\* calculate_all_trait_scores
calculate_all_trait_scores(responses) ==
    [raised |-> "none",
     scores |-> [t \in TraitSet |-> trait_result(calculate_trait_score(responses, t))]]

\* validate_complete_responses
validate_complete_responses(responses) ==
    [valid |-> /\ (1..24) \ DOMAIN responses = {}
               /\ DOMAIN responses \ (1..24) = {}
               /\ {n \in DOMAIN responses : ~(1 <= responses[n] /\ responses[n] <= 7)} = {},
     missing_items |-> (1..24) \ DOMAIN responses,
     extra_items |-> DOMAIN responses \ (1..24),
     invalid_values |-> {n \in DOMAIN responses : ~(1 <= responses[n] /\ responses[n] <= 7)},
     total_responses |-> Cardinality(DOMAIN responses)]

\* `{r.item_number: r.value for r in data.responses}`: a later entry of the
\* list replaces an earlier one for the same item
responses_dict(response_list) ==
    [n \in {response_list[i][1] : i \in 1..Len(response_list)} |->
        response_list[CHOOSE i \in 1..Len(response_list) :
                         /\ response_list[i][1] = n
                         /\ \A j \in (i + 1)..Len(response_list) :
                               response_list[j][1] # n][2]]

\* routers/survey.py submit_survey from `responses_dict = ...` on, for a
\* survey session in progress: HTTP 400 unless the validation passes, else
\* the scores that are stored as the result
score_validated(responses, validation) ==
    IF ~validation.valid
    THEN [raised |-> "HTTPException", status_code |-> 400]
    ELSE calculate_all_trait_scores(responses)

\* schemas/assessment.py SurveySubmit (`min_length=24, max_length=24`), then
\* submit_survey
submit_survey(response_list) ==
    IF Len(response_list) # 24
    THEN [raised |-> "RequestValidationError", status_code |-> 422]
    ELSE score_validated(responses_dict(response_list),
                         validate_complete_responses(responses_dict(response_list)))

-----------------------------------------------------------------------------
(* scripts/monte_carlo_simulation.py *)

\* theta_to_likert: 4.0 + theta * 0.75, then max(1.0, min(7.0, likert))
theta_to_likert(theta) ==
    LET likert == 4000000 + (6 * theta + 4) \div 8
    IN  IF likert < 1000000 THEN 1000000
        ELSE IF likert > 7000000 THEN 7000000
        ELSE likert

\* the "reverse" entries of the simulation's own MINI_IPIP6_ITEMS
simulation_reverse ==
    [n \in 1..24 |-> n \in {7, 19, 8, 20, 11, 22, 15, 17, 9, 13, 21, 6, 12, 18, 24}]

\* simulate_response after `trait_response = np.random.choice(range(1, 8), p=probs)`:
\* the raw response returned
simulate_response(trait_response, reverse) ==
    IF reverse THEN 8 - trait_response ELSE trait_response

\* variant: the raw response is passed to the update as it is
scored_response_raw(response, reverse) == response

\* `scored_response = 8 - response if item["reverse"] else response`
scored_response(response, reverse) ==
    IF reverse THEN 8 - response ELSE response

\* one pass of the loop of DOSESimulator.run for the selected item and the
\* category drawn: the response simulated, the response given to
\* update_posterior and the entry appended to the trait's responses
simulator_step(item_id, trait_response) ==
    [response |-> simulate_response(trait_response, simulation_reverse[item_id]),
     scored_response |->
         scored_response(simulate_response(trait_response, simulation_reverse[item_id]),
                         simulation_reverse[item_id]),
     appended |-> <<item_id, simulate_response(trait_response, simulation_reverse[item_id])>>]

-----------------------------------------------------------------------------
(* Calls of the scorer and of the conversions on given arguments *)

\* answers to all 24 items: v[1..4] on the items of trait t, rest elsewhere
Answers(t, v, rest) ==
    [n \in 1..24 |->
        IF MINI_IPIP6_ITEMS[n].trait = t
        THEN v[CHOOSE i \in 1..4 : TRAIT_ITEMS[t][i] = n]
        ELSE rest]

CompleteAnswers ==
    {Answers(t, v, rest) : t \in TraitSet, v \in [1..4 -> Scale], rest \in RestResponses}

\* answers with some items of one trait left out
PartialAnswers ==
    UNION {
        {[n \in (1..24) \ missing |-> Answers(t, v, Neutral)[n]] :
            v \in [1..4 -> Responses],
            missing \in (SUBSET trait_item_set(t)) \ {{}}} :
        t \in TraitSet}

\* no answers at all
NoAnswers == [n \in {} |-> 0]

\* the body of a submission: the answers in item order; a padded body
\* repeats its first entry until it has 24 entries
answer_list(answers, padded) ==
    LET items == SelectSeq([n \in 1..24 |-> n], LAMBDA n : n \in DOMAIN answers)
        entries == [i \in 1..Len(items) |-> <<items[i], answers[items[i]]>>]
    IN  IF padded /\ entries # <<>>
        THEN entries \o [i \in 1..(24 - Len(entries)) |-> entries[1]]
        ELSE entries

EvaluationInputs ==
    {[op |-> "calculate_all_trait_scores", responses |-> a, result |-> <<>>] :
        a \in CompleteAnswers \cup PartialAnswers \cup {NoAnswers}}
    \cup
    {[op |-> "submit_survey", body |-> answer_list(a, padded), result |-> <<>>] :
        a \in CompleteAnswers \cup PartialAnswers \cup {NoAnswers}, padded \in BOOLEAN}
    \cup
    {[op |-> "theta_to_likert", theta |-> theta, scale |-> <<>>, simulated |-> <<>>] :
        theta \in ThetaInputs}
    \cup
    {[op |-> "simulate", item_id |-> item_id, trait_response |-> trait_response,
      step |-> <<>>] :
        item_id \in 1..24, trait_response \in Scale}

InitEval ==
    /\ InitAlgorithm
    /\ init_args.se_threshold = None
    /\ StockEngine
    /\ NoSessions
    /\ NoSelection
    /\ participants = <<>>
    /\ helper_call = [op |-> "none"]
    /\ requests = <<>>
    /\ evaluation \in EvaluationInputs

\* the other variables of a step that makes a call on given arguments
EvaluationOnly ==
    UNCHANGED <<algorithm_vars, session_vars, selection, participants, helper_call, requests>>

\* calculate_all_trait_scores(responses)
Score ==
    /\ evaluation.op = "calculate_all_trait_scores"
    /\ evaluation.result = <<>>
    /\ evaluation' = [evaluation EXCEPT
          !.result = <<calculate_all_trait_scores(evaluation.responses)>>]
    /\ EvaluationOnly

\* POST /{session_id}/submit
SubmitSurvey ==
    /\ evaluation.op = "submit_survey"
    /\ evaluation.result = <<>>
    /\ evaluation' = [evaluation EXCEPT
          !.result = <<submit_survey(evaluation.body)>>]
    /\ EvaluationOnly

\* irt_engine.theta_to_likert_scale(theta), as get_final_results calls it
ThetaToLikertScale ==
    /\ evaluation.op = "theta_to_likert"
    /\ evaluation.scale = <<>>
    /\ evaluation' = [evaluation EXCEPT !.scale = <<theta_to_likert_scale(evaluation.theta)>>]
    /\ EvaluationOnly

\* theta_to_likert(theta) of the simulation
ThetaToLikert ==
    /\ evaluation.op = "theta_to_likert"
    /\ evaluation.simulated = <<>>
    /\ evaluation' = [evaluation EXCEPT !.simulated = <<theta_to_likert(evaluation.theta)>>]
    /\ EvaluationOnly

\* DOSESimulator.run, one pass of its loop
SimulatorStep ==
    /\ evaluation.op = "simulate"
    /\ evaluation.step = <<>>
    /\ evaluation' = [evaluation EXCEPT
          !.step = <<simulator_step(evaluation.item_id, evaluation.trait_response)>>]
    /\ EvaluationOnly

NextEval ==
    \/ Score
    \/ SubmitSurvey
    \/ ThetaToLikertScale
    \/ ThetaToLikert
    \/ SimulatorStep

SpecEval == InitEval /\ [][NextEval]_vars

-----------------------------------------------------------------------------
(* services/counterbalancing.py, routers/participants.py and the start      *)
(* handlers of routers/survey.py and routers/dose_chatbot.py                *)

CONDITIONS == <<"survey", "dose">>

\* list.index(x): the 0-based position of the first x (x is in the list)
list_index(list, x) ==
    (CHOOSE i \in 1..Len(list) :
        /\ list[i] = x
        /\ \A j \in 1..(i - 1) : list[j] # x) - 1

\* x in list
in_list(list, x) == \E i \in 1..Len(list) : list[i] = x

\* the orders random.shuffle can leave a copy of the list in
Shuffles(list) ==
    {[i \in 1..Len(list) |-> list[p[i]]] : p \in Permutations(1..Len(list))}

\* variant: the row tells whether dose comes first
row_index_dose(order) == IF order[1] = "dose" THEN 0 ELSE 1

\* `row_index = 0 if order[0] == "survey" else 1`
row_index(order) == IF order[1] = "survey" THEN 0 ELSE 1

\* assign_condition_order after random.shuffle(order)
assign_condition_order(order) ==
    [latin_square_row |-> row_index(order),
     condition_sequence |-> [i \in 1..Len(order) |-> list_index(CONDITIONS, order[i])],
     condition_order |-> order]

\* variant: the conditions are tried in the order of CONDITIONS
get_next_condition_listed(condition_order, completed_conditions) ==
    IF \A i \in 1..Len(CONDITIONS) : in_list(completed_conditions, CONDITIONS[i])
    THEN <<>>
    ELSE <<CONDITIONS[CHOOSE i \in 1..Len(CONDITIONS) :
                /\ ~in_list(completed_conditions, CONDITIONS[i])
                /\ \A j \in 1..(i - 1) : in_list(completed_conditions, CONDITIONS[j])]>>

\* get_next_condition: <<c>> for the condition c returned, <<>> for None
get_next_condition(condition_order, completed_conditions) ==
    IF \A i \in 1..Len(condition_order) : in_list(completed_conditions, condition_order[i])
    THEN <<>>
    ELSE <<condition_order[CHOOSE i \in 1..Len(condition_order) :
                /\ ~in_list(completed_conditions, condition_order[i])
                /\ \A j \in 1..(i - 1) : in_list(completed_conditions, condition_order[j])]>>

\* variant: the position is returned as list.index gives it
get_sequence_number_zero_based(condition_order, condition) ==
    IF in_list(condition_order, condition)
    THEN [raised |-> "none", value |-> list_index(condition_order, condition)]
    ELSE [raised |-> "ValueError", value |-> None]

\* get_sequence_number: `condition_order.index(condition) + 1`
get_sequence_number(condition_order, condition) ==
    IF in_list(condition_order, condition)
    THEN [raised |-> "none", value |-> list_index(condition_order, condition) + 1]
    ELSE [raised |-> "ValueError", value |-> None]

\* `[s.session_type.value for s in completed_sessions]`
completed_conditions(assessment_sessions) ==
    LET completed == SelectSeq(assessment_sessions, LAMBDA s : s.status = "completed")
    IN  [i \in 1..Len(completed) |-> completed[i].session_type]

\* the other variables of a step of the participants and sessions tables
StudyOnly == UNCHANGED <<algorithm_vars, session_vars, selection, evaluation, requests>>

\* POST /register
RegisterParticipant(order) ==
    /\ Len(participants) < MaxParticipants
    /\ participants' = Append(participants,
          [latin_square_row |-> assign_condition_order(order).latin_square_row,
           condition_order |-> assign_condition_order(order).condition_order,
           assessment_sessions |-> <<>>,
           progress |-> <<>>])
    /\ helper_call' = [op |-> "assign_condition_order",
                       participant_number |-> Len(participants) + 1,
                       result |-> assign_condition_order(order)]
    /\ StudyOnly

\* POST /{participant_id}/start of the survey, DOSE and static chatbot
\* routers, for a participant without a session of that type
StartCondition(p, session_type, sequence) ==
    /\ \A i \in 1..Len(participants[p].assessment_sessions) :
          participants[p].assessment_sessions[i].session_type # session_type
    /\ helper_call' = [op |-> "get_sequence_number", participant |-> p,
                       condition |-> session_type, result |-> sequence]
    /\ participants' =
          IF sequence.raised # "none" THEN participants
          ELSE [participants EXCEPT
                  ![p].assessment_sessions =
                      Append(@, [session_type |-> session_type,
                                 sequence_number |-> sequence.value,
                                 status |-> "in_progress"])]
    /\ StudyOnly

\* the last answer of session i of participant p arrives: the session is
\* marked completed
CompleteCondition(p, i) ==
    /\ participants[p].assessment_sessions[i].status = "in_progress"
    /\ participants' = [participants EXCEPT
          ![p].assessment_sessions[i].status = "completed"]
    /\ UNCHANGED helper_call
    /\ StudyOnly

\* GET /{participant_id}/progress
GetParticipantProgress(p, completed) ==
    /\ participants' = [participants EXCEPT
          ![p].progress =
              <<[condition_order |-> participants[p].condition_order,
                 completed_conditions |-> completed,
                 next_condition |->
                     get_next_condition(participants[p].condition_order, completed),
                 sessions_completed |-> Len(completed),
                 sessions_remaining |-> 2 - Len(completed)]>>]
    /\ helper_call' = [op |-> "get_next_condition", participant |-> p,
                       result |-> get_next_condition(participants[p].condition_order,
                                                     completed)]
    /\ StudyOnly

InitStudy ==
    /\ InitAlgorithm
    /\ init_args.se_threshold = None
    /\ StockEngine
    /\ NoSessions
    /\ NoSelection
    /\ NoStudy

NextStudy ==
    \/ \E order \in Shuffles(CONDITIONS) : RegisterParticipant(order)
    \/ \E p \in DOMAIN participants, session_type \in StartedTypes :
          StartCondition(p, session_type,
                         get_sequence_number(participants[p].condition_order,
                                             session_type))
    \/ \E p \in DOMAIN participants :
          \E i \in DOMAIN participants[p].assessment_sessions : CompleteCondition(p, i)
    \/ \E p \in DOMAIN participants :
          GetParticipantProgress(p, completed_conditions(participants[p].assessment_sessions))

SpecStudy == InitStudy /\ [][NextStudy]_vars

-----------------------------------------------------------------------------
(* routers/survey.py, routers/dose_chatbot.py: the start, submit and       *)
(* respond handlers as concurrent requests.  A handler reads the tables,   *)
(* and what it adds or changes reaches them at its `await db.commit()`;    *)
(* other requests run in between.                                          *)

\* session types with a start handler and a SessionType member
SessionTypes == {"survey", "dose"}

\* the other variables of a step of a request
RequestsOnly == UNCHANGED <<algorithm_vars, session_vars, selection, evaluation, helper_call>>

\* the rows of participant p's sessions of a type with status COMPLETED
completed_sessions(p, session_type) ==
    {i \in 1..Len(participants[p].assessment_sessions) :
        /\ participants[p].assessment_sessions[i].session_type = session_type
        /\ participants[p].assessment_sessions[i].status = "completed"}

\* `result.scalar_one_or_none()` over the COMPLETED sessions of the type,
\* then `if ...: raise HTTPException(400)`
start_check(p, session_type) ==
    IF Cardinality(completed_sessions(p, session_type)) > 1 THEN "MultipleResultsFound"
    ELSE IF Cardinality(completed_sessions(p, session_type)) = 1 THEN "HTTP 400"
    ELSE "none"

\* start_survey / start_dose_chatbot up to the commit: the participant is
\* found, the COMPLETED sessions of the type are queried, the sequence
\* number is computed
StartReceived(p, session_type) ==
    /\ Len(requests) < MaxRequests
    /\ requests' = Append(requests,
          [op |-> "start", participant |-> p, session_type |-> session_type,
           sequence |-> get_sequence_number(participants[p].condition_order,
                                            session_type),
           raised |-> start_check(p, session_type),
           pc |-> IF start_check(p, session_type) = "none" THEN "commit" ELSE "done"])
    /\ UNCHANGED participants
    /\ RequestsOnly

\* the commit of a start handler: the new session row, IN_PROGRESS; a DOSE
\* session carries the state saved after the first get_next_action
StartCommitted(r) ==
    /\ requests[r].op = "start"
    /\ requests[r].pc = "commit"
    /\ participants' = [participants EXCEPT
          ![requests[r].participant].assessment_sessions =
              Append(@, [session_type |-> requests[r].session_type,
                         sequence_number |-> requests[r].sequence.value,
                         status |-> "in_progress",
                         items_administered |-> 0,
                         has_result |-> FALSE,
                         dose_state |->
                             IF requests[r].session_type = "dose"
                             THEN save_dose_state(get_next_action(initialize_session).state)
                             ELSE <<>>])]
    /\ requests' = [requests EXCEPT ![r].pc = "done"]
    /\ RequestsOnly

\* the checks of submit_survey on the session row read (the body is a
\* complete set of answers)
submit_check(session) ==
    IF session.session_type # "survey" THEN "HTTP 400"
    ELSE IF session.status = "completed" THEN "HTTP 400"
    ELSE "none"

\* submit_survey up to the commit
SubmitReceived(p, i) ==
    /\ Len(requests) < MaxRequests
    /\ requests' = Append(requests,
          [op |-> "submit", participant |-> p, session |-> i,
           raised |-> submit_check(participants[p].assessment_sessions[i]),
           pc |-> IF submit_check(participants[p].assessment_sessions[i]) = "none"
                  THEN "commit" ELSE "done"])
    /\ UNCHANGED participants
    /\ RequestsOnly

\* the commit of submit_survey: the responses, the AssessmentResult and the
\* status COMPLETED; assessment_results.session_id is unique, so the commit
\* of a second result for the session fails and leaves the tables as they are
SubmitCommitted(r) ==
    /\ requests[r].op = "submit"
    /\ requests[r].pc = "commit"
    /\ IF participants[requests[r].participant].assessment_sessions[requests[r].session].has_result
       THEN /\ requests' = [requests EXCEPT ![r].pc = "done", ![r].raised = "IntegrityError"]
            /\ UNCHANGED participants
       ELSE /\ requests' = [requests EXCEPT ![r].pc = "done"]
            /\ participants' = [participants EXCEPT
                  ![requests[r].participant].assessment_sessions[requests[r].session] =
                      [@ EXCEPT !.status = "completed",
                                !.items_administered = 24,
                                !.has_result = TRUE]]
    /\ RequestsOnly

\* the checks of respond_dose_chatbot on the session row read, then
\* load_dose_state
respond_check(session) ==
    IF session.session_type # "dose" THEN "HTTP 400"
    ELSE IF session.status = "completed" THEN "HTTP 400"
    ELSE IF load_dose_state(session.dose_state).raised = "ValueError" THEN "HTTP 400"
    ELSE load_dose_state(session.dose_state).raised

\* respond_dose_chatbot: it ends before anything is added to the tables
RespondReceived(p, i) ==
    /\ Len(requests) < MaxRequests
    /\ requests' = Append(requests,
          [op |-> "respond", participant |-> p, session |-> i,
           raised |-> respond_check(participants[p].assessment_sessions[i]),
           pc |-> "done"])
    /\ UNCHANGED participants
    /\ RequestsOnly

NextRequests ==
    \/ \E order \in Shuffles(CONDITIONS) : RegisterParticipant(order)
    \/ \E p \in DOMAIN participants, session_type \in SessionTypes :
          StartReceived(p, session_type)
    \/ \E r \in DOMAIN requests : StartCommitted(r)
    \/ \E p \in DOMAIN participants :
          \E i \in DOMAIN participants[p].assessment_sessions : SubmitReceived(p, i)
    \/ \E r \in DOMAIN requests : SubmitCommitted(r)
    \/ \E p \in DOMAIN participants :
          \E i \in DOMAIN participants[p].assessment_sessions : RespondReceived(p, i)

SpecRequests == InitStudy /\ [][NextRequests]_vars
-----------------------------------------------------------------------------
(* Properties *)

\* the SE threshold the session was configured with: the value passed to
\* the constructor, the settings default when none was passed
ConfiguredSeThreshold ==
    IF init_args.se_threshold = None THEN DOSE_SE_THRESHOLD
    ELSE init_args.se_threshold

StopHolds(t) ==
    \/ state.trait_states[t].standard_error < ConfiguredSeThreshold
    \/ Len(state.trait_states[t].items_used) = DOSE_MAX_ITEMS_PER_TRAIT

\* C1: a trait is Completed only if its SE is below the configured
\* SE_THRESHOLD or it has used MAX_ITEMS_PER_TRAIT (4) items, and the trait
\* a response was just processed for is Completed whenever one of the two holds.
StoppingCorrectness ==
    /\ \A t \in TraitSet : state.traits_completed[t] => StopHolds(t)
    /\ (last_call.op = "process_response" /\ last_call.raised = "none") =>
          LET t == MINI_IPIP6_ITEMS[last_call.item_number].trait
          IN  StopHolds(t) => state.traits_completed[t]

\* C2: a trait that is Completed stays Completed in every later state.
CompletionAbsorbing ==
    [][\A t \in TraitSet :
          state.traits_completed[t] => state'.traits_completed[t]]_vars

\* a response was processed for a trait that was already Completed
CompletedThenAnswered ==
    /\ last_call.op = "process_response"
    /\ last_call.raised = "none"
    /\ LET n == Len(state.administered_items)
           t == state.administered_items[n].trait
       IN  /\ n > 1
           /\ state.traits_completed[t]
           /\ \E i \in 1..(n - 1) :
                 /\ state.administered_items[i].trait = t
                 /\ \/ state.administered_items[i].se_after < se_threshold
                    \/ Cardinality({j \in 1..i : state.administered_items[j].trait = t})
                          >= max_items_per_trait

ItemBounds ==
    /\ state.total_items <= 24
    /\ \A t \in TraitSet : Len(state.trait_states[t].items_used) <= 4

\* all 24 items were administered
AllItemsAdministered ==
    /\ state.total_items = 24
    /\ \A t \in TraitSet : Len(state.trait_states[t].items_used) = 4

\* the step is a process_response call with an item of the bank and a
\* response on the 1..7 scale
WellFormedResponseStep ==
    /\ last_call'.op = "process_response"
    /\ last_call'.item_number \in 1..24
    /\ last_call'.response \in 1..7

\* C5: process_response with an item other than the one the most recent
\* get_next_action presented is rejected and applied to no posterior.
UnexpectedItemRejected ==
    [][(/\ WellFormedResponseStep
        /\ last_action.action = "present_item"
        /\ last_call'.item_number # last_action.item_number)
       => (/\ last_call'.raised # "none"
           /\ state'.trait_states = state.trait_states)]_vars

\* C6: a response submitted when every trait is Completed is rejected and
\* leaves the session state unchanged.
AlreadyCompletedRejected ==
    [][(/\ WellFormedResponseStep
        /\ \A t \in TraitSet : state.traits_completed[t])
       => (/\ last_call'.raised # "none"
           /\ state' = state)]_vars

\* C7: process_response with a response outside 1..7 is rejected, and no
\* response outside 1..7 is in a trait's responses.
InvalidResponseRejected ==
    [][(/\ last_call'.op = "process_response"
        /\ last_call'.response \notin 1..7)
       => (/\ last_call'.raised # "none"
           /\ state' = state
           /\ \A t \in TraitSet :
                \A i \in 1..Len(state'.trait_states[t].responses) :
                    state'.trait_states[t].responses[i][2] \in 1..7)]_vars

\* C8: process_response with an item id outside the bank raises (KeyError on
\* the bank lookup) and leaves the session state as it was.
UnknownItemRejected ==
    [][(/\ last_call'.op = "process_response"
        /\ last_call'.item_number \notin 1..24)
       => (/\ last_call'.raised = "KeyError"
           /\ state' = state)]_vars

\* an unknown item id was passed in a session that has administered items
UnknownItemPassed ==
    /\ last_call.op = "process_response"
    /\ last_call.item_number = 25
    /\ last_call.raised = "KeyError"
    /\ state.total_items > 0

CanonicalPosition(t) ==
    CASE t = "extraversion" -> 1
      [] t = "agreeableness" -> 2
      [] t = "conscientiousness" -> 3
      [] t = "neuroticism" -> 4
      [] t = "openness" -> 5
      [] t = "honesty_humility" -> 6

ActiveTraits == {t \in TraitSet : ~state.traits_completed[t]}

\* C10: the trait selected by get_next_action is S[total_items mod |S|], S
\* the Active traits in canonical order: it is Active and the number of
\* Active traits before it in canonical order is total_items mod |S|.
RoundRobinSelection ==
    (last_call.op = "get_next_action" /\ last_action.action = "present_item") =>
        /\ last_action.trait \in ActiveTraits
        /\ Cardinality({u \in ActiveTraits :
                           CanonicalPosition(u) < CanonicalPosition(last_action.trait)})
              = state.total_items % Cardinality(ActiveTraits)

\* a trait other than the first Active one is selected while some traits
\* are Completed
RoundRobinAfterCompletion ==
    /\ last_call.op = "get_next_action"
    /\ last_action.action = "present_item"
    /\ Cardinality(ActiveTraits) \in 2..5
    /\ state.total_items % Cardinality(ActiveTraits) > 0


\* C12: get_next_action does not modify the state passed in (traits_completed
\* included), and a second call on the same state returns the same action.
NextActionPure ==
    [][last_call'.op = "get_next_action" =>
          /\ state' = state
          /\ last_call.op = "get_next_action" => last_action' = last_action]_vars

\* C14: with SE_THRESHOLD = 10.0 the first get_next_action of a fresh session
\* returns PresentItem, and after one process_response (response 4) all six
\* traits are Completed with total_items = 1, the five others with no item.
TrivialCompletion ==
    init_args.se_threshold = 10000000 =>
        /\ (last_call.op = "get_next_action" /\ state.total_items = 0) =>
              last_action.action = "present_item"
        /\ (/\ last_call.op = "process_response"
            /\ last_call.response = Neutral
            /\ Len(state.administered_items) = 1) =>
              /\ state.total_items = 1
              /\ \A t \in TraitSet :
                    /\ state.traits_completed[t]
                    /\ Len(state.trait_states[t].items_used) =
                          IF t = state.administered_items[1].trait THEN 1 ELSE 0

\* C15: with SE_THRESHOLD = 0.0 a session is Complete only after 24
\* administrations, every trait then has four items used and the
\* item_reduction_rate is 0.
HardCap ==
    (/\ init_args.se_threshold = 0
     /\ last_call.op = "get_next_action"
     /\ last_action.action = "complete") =>
        /\ state.total_items = 24
        /\ \A t \in TraitSet : Len(state.trait_states[t].items_used) = 4
        /\ get_final_results(state).item_reduction_rate = 0

\* C18: a session state written with to_dict and restored from the stored
\* dictionary is equal to the original state.
StateRoundTrip ==
    LET restored == load_dose_state(save_dose_state(state))
    IN  /\ restored.raised = "none"
        /\ restored.state = state

HistoryChained(history) ==
    \A i, j \in 1..Len(history) :
        (/\ i < j
         /\ history[i].trait = history[j].trait
         /\ \A k \in (i + 1)..(j - 1) : history[k].trait # history[i].trait)
        => (/\ history[j].theta_before = history[i].theta_after
            /\ history[j].se_before = history[i].se_after)

\* C20: each process_response appends exactly one record, whose
\* presentation_order is its position in the history, whose theta/SE before
\* are the trait's values before the update and theta/SE after those after
\* it; consecutive records of one trait are chained.
HistoryRecords ==
    [][last_call'.op = "process_response" =>
          LET before == state.administered_items
              after == state'.administered_items
              n == Len(after)
              t == MINI_IPIP6_ITEMS[last_call'.item_number].trait
          IN  /\ n = Len(before) + 1
              /\ SubSeq(after, 1, n - 1) = before
              /\ after[n].item_number = last_call'.item_number
              /\ after[n].response = last_call'.response
              /\ after[n].trait = t
              /\ after[n].presentation_order = n
              /\ after[n].theta_before = state.trait_states[t].theta_estimate
              /\ after[n].se_before = state.trait_states[t].standard_error
              /\ after[n].theta_after = state'.trait_states[t].theta_estimate
              /\ after[n].se_after = state'.trait_states[t].standard_error
              /\ HistoryChained(after)]_vars

\* the history holds a second record of a trait whose estimate had moved
SecondRecordOfTrait ==
    /\ last_call.op = "process_response"
    /\ \E i, j \in 1..Len(state.administered_items) :
          /\ i < j
          /\ state.administered_items[i].trait = state.administered_items[j].trait
          /\ state.administered_items[i].theta_after # 0
          /\ state.administered_items[j].theta_before =
                state.administered_items[i].theta_after

\* the bank's reverse_scored flags with the flag of one item inverted
FlagInverted(item_number) ==
    [n \in 1..24 |->
        IF n = item_number THEN ~reverse_scored_items[n] ELSE reverse_scored_items[n]]

\* C16: the posterior after processing (reverse-keyed item, r) is the
\* posterior of the same responses with that item's reverse flag off and the
\* response 8 - r (and likewise for a direct item with the flag on): the
\* effective response is 8 - r on a reverse-keyed item, r on a direct one.
ReverseKeySymmetry ==
    (/\ last_call.op = "process_response"
     /\ last_call.raised = "none") =>
        LET item_number == last_call.item_number
            t == MINI_IPIP6_ITEMS[item_number].trait
            responses == state.trait_states[t].responses
            mirrored == [responses EXCEPT
                           ![Len(responses)] = <<item_number, 8 - last_call.response>>]
            other == compute_posterior_items(mirrored, FlagInverted(item_number))
        IN  /\ other.raised = "none"
            /\ other.mean = state.trait_states[t].theta_estimate
            /\ other.sd = state.trait_states[t].standard_error
            /\ effective_response(reverse_scored_items[item_number], last_call.response)
                  = IF item_number \in REVERSE_SCORED_ITEMS
                    THEN 8 - last_call.response ELSE last_call.response

\* a reverse-keyed item was answered 7 after another item of its trait
ReverseItemAnswered ==
    /\ last_call.op = "process_response"
    /\ last_call.raised = "none"
    /\ last_call.item_number \in REVERSE_SCORED_ITEMS
    /\ last_call.response = 7
    /\ Len(state.trait_states[MINI_IPIP6_ITEMS[last_call.item_number].trait].responses) > 1

\* C11: the item select_next_item returns is an unadministered item of the
\* selected trait whose Fisher information at the trait's theta estimate is
\* maximal among the unadministered items (Spec: the information values of
\* the bank), and of the items attaining the maximum it has the smallest id
\* (SpecSelect: given information values, ties included).
MaximumInformationSelected ==
    /\ (last_call.op = "get_next_action" /\ last_action.action = "present_item") =>
          LET trait_state == state.trait_states[last_action.trait]
              unadministered ==
                  {n \in trait_item_set(last_action.trait) :
                      \A i \in 1..Len(trait_state.items_used) :
                          trait_state.items_used[i] # n}
              information(n) == item_fisher_information(n, trait_state.theta_estimate)
          IN  /\ last_action.item_number \in unadministered
              /\ \A n \in unadministered :
                    /\ information(n) <= information(last_action.item_number)
                    /\ information(n) = information(last_action.item_number)
                          => last_action.item_number <= n
    /\ (selection.trait \in TraitSet /\ selection.best_item # None) =>
          LET unadministered ==
                  {n \in trait_item_set(selection.trait) :
                      \A i \in 1..Len(selection.items_used) :
                          selection.items_used[i] # n}
          IN  /\ selection.best_item \in unadministered
              /\ \A n \in unadministered :
                    /\ selection.item_info[n] <= selection.item_info[selection.best_item]
                    /\ selection.item_info[n] = selection.item_info[selection.best_item]
                          => selection.best_item <= n

\* an item was selected among several that attain the maximum, one of them
\* with less information than others before it
TieBroken ==
    /\ selection.trait \in TraitSet
    /\ selection.best_item # None
    /\ \E n, m \in trait_item_set(selection.trait) :
          /\ n > selection.best_item
          /\ m < selection.best_item
          /\ \A i \in 1..Len(selection.items_used) :
                selection.items_used[i] # n /\ selection.items_used[i] # m
          /\ selection.item_info[n] = selection.item_info[selection.best_item]
          /\ selection.item_info[m] < selection.item_info[selection.best_item]

\* C13: update_trait_state leaves the TraitState object passed in as it was:
\* when a response is processed for a session, the object its trait_states
\* entry referred to before the call is unchanged after it.
UpdateLeavesArgument ==
    [][\A s \in DOMAIN sessions :
          sessions'[s].state.total_items # sessions[s].state.total_items =>
              \A t \in TraitSet :
                  objects'[sessions[s].state.trait_states[t]]
                      = objects[sessions[s].state.trait_states[t]]]_vars

\* C17: every session's state and last action are those obtained when its
\* calls run on their own, whatever the other session did in between.
SessionsIndependent ==
    \A s \in DOMAIN sessions :
        /\ session_state(s) = alone[s].state
        /\ sessions[s].last_action = alone[s].last_action

\* both sessions have administered items and are in different states, the
\* session created first still being served
SessionsInterleaved ==
    /\ DOMAIN sessions = SessionIds
    /\ \A s \in SessionIds : sessions[s].state.total_items >= 2
    /\ sessions["A"].last_action.action = "present_item"
    /\ sessions["A"].state.trait_states["extraversion"]
          < sessions["B"].state.trait_states["extraversion"]
    /\ session_state("A").trait_states["extraversion"].items_used
          # session_state("B").trait_states["extraversion"].items_used

-----------------------------------------------------------------------------
(* Classical scoring and the theta-to-Likert conversions *)

\* the answers a scoring call was made on, as a dict
ScoredAnswers ==
    IF evaluation.op = "submit_survey"
    THEN responses_dict(evaluation.body)
    ELSE evaluation.responses

\* a scoring call was made
ScoringMade ==
    /\ evaluation.op \in {"calculate_all_trait_scores", "submit_survey"}
    /\ evaluation.result # <<>>

\* response r to item n after reverse correction, by the list of
\* reverse-keyed items
Corrected(n, r) == IF n \in REVERSE_SCORED_ITEMS THEN 8 - r ELSE r

\* C21: given answers in 1..7 to all 24 items the scorer returns, for each
\* trait, the arithmetic mean of its four answers after replacing r by 8 - r
\* on the reverse-keyed items, a score within [1, 7]; when every answer is 7
\* each reverse-keyed item contributes 1 and each direct item 7.
ClassicalScores ==
    (ScoringMade /\ DOMAIN ScoredAnswers = 1..24) =>
        /\ evaluation.result[1].raised = "none"
        /\ \A t \in TraitSet :
              LET items == TRAIT_ITEMS[t]
                  score == evaluation.result[1].scores[t].score
              IN  /\ 4 * score =
                         1000000 * (Corrected(items[1], ScoredAnswers[items[1]])
                                    + Corrected(items[2], ScoredAnswers[items[2]])
                                    + Corrected(items[3], ScoredAnswers[items[3]])
                                    + Corrected(items[4], ScoredAnswers[items[4]]))
                  /\ 1000000 <= score /\ score <= 7000000
                  /\ (\A n \in 1..24 : ScoredAnswers[n] = 7) =>
                        4 * score =
                            1000000 * (7 * Cardinality(trait_item_set(t) \ REVERSE_SCORED_ITEMS)
                                       + Cardinality(trait_item_set(t) \cap REVERSE_SCORED_ITEMS))

\* the scorer was called with 7 for every item: honesty_humility, all of
\* whose items are reverse-keyed, scores 1 and extraversion (7 + 1 + 1 + 7) / 4
AllSevenScored ==
    /\ evaluation.op = "calculate_all_trait_scores"
    /\ evaluation.result # <<>>
    /\ DOMAIN evaluation.responses = 1..24
    /\ \A n \in 1..24 : evaluation.responses[n] = 7
    /\ evaluation.result[1].scores["honesty_humility"].score = 1000000
    /\ evaluation.result[1].scores["extraversion"].score = 4000000

\* C22: the classical scorer given fewer than 24 item responses fails with
\* an error (IncompleteSurvey) instead of returning trait scores.
IncompleteSurveyRejected ==
    (ScoringMade /\ Cardinality(DOMAIN ScoredAnswers) < 24) =>
        evaluation.result[1].raised # "none"

\* clip(4 + 0.75 theta, 1, 7), six decimals
LinearLikert(theta) ==
    LET likert == 4000000 + (3 * theta) \div 4
    IN  IF likert < 1000000 THEN 1000000
        ELSE IF likert > 7000000 THEN 7000000
        ELSE likert

\* C23: the theta-to-Likert conversion returns clip(4 + 0.75 theta, 1, 7), and
\* IRTEngine.theta_to_likert_scale and the simulation's theta_to_likert
\* return the same value for the same theta (values agree within 1e-6).
LikertConvention ==
    (/\ evaluation.op = "theta_to_likert"
     /\ evaluation.scale # <<>>
     /\ evaluation.simulated # <<>>) =>
        /\ evaluation.scale[1] - LinearLikert(evaluation.theta) \in -1..1
        /\ evaluation.simulated[1] - LinearLikert(evaluation.theta) \in -1..1
        /\ evaluation.scale[1] - evaluation.simulated[1] \in -1..1

-----------------------------------------------------------------------------
(* Cold start *)

\* C24: for a trait with no responses (theta estimate 0) the item chosen by
\* maximum Fisher information is the trait's highest-alpha item, the one
\* get_highest_discrimination_item and select_starting_items return; the first
\* item of a fresh session is the highest-alpha item of the first trait.
ColdStart ==
    (/\ last_call.op = "get_next_action"
     /\ last_action.action = "present_item"
     /\ state.trait_states[last_action.trait].responses = <<>>) =>
        /\ state.trait_states[last_action.trait].theta_estimate = 0
        /\ last_action.item_number = get_highest_discrimination_item(last_action.trait, <<>>)
        /\ last_action.item_number = select_starting_items[last_action.trait]
        /\ \A n \in trait_item_set(last_action.trait) :
              MINI_IPIP6_ITEMS[n].alpha <= MINI_IPIP6_ITEMS[last_action.item_number].alpha
        /\ state.total_items = 0 => last_action.trait = TRAITS[1]

\* the untouched trait conscientiousness is presented its last item in bank
\* order, item 22 (alpha 0.94), after the first items of two other traits
ColdStartPresented ==
    /\ last_call.op = "get_next_action"
    /\ last_action.action = "present_item"
    /\ last_action.trait = "conscientiousness"
    /\ state.trait_states["conscientiousness"].responses = <<>>
    /\ last_action.item_number = 22
    /\ state.total_items = 2

-----------------------------------------------------------------------------
(* Counterbalancing *)

\* C25: assign_condition_order returns an order in which each of the two
\* conditions occurs exactly once, latin_square_row = 0 exactly when survey
\* comes first, and condition_sequence[i] is the index in CONDITIONS of the
\* i-th condition of the order.
AssignedOrder ==
    helper_call.op = "assign_condition_order" =>
        LET r == helper_call.result
        IN  /\ Len(r.condition_order) = 2
            /\ \A c \in {"survey", "dose"} :
                  Cardinality({i \in 1..Len(r.condition_order) : r.condition_order[i] = c}) = 1
            /\ r.latin_square_row \in {0, 1}
            /\ r.latin_square_row = 0 <=> r.condition_order[1] = "survey"
            /\ Len(r.condition_sequence) = Len(r.condition_order)
            /\ \A i \in 1..Len(r.condition_order) :
                  /\ r.condition_sequence[i] \in 0..(Len(CONDITIONS) - 1)
                  /\ CONDITIONS[r.condition_sequence[i] + 1] = r.condition_order[i]
            /\ participants[helper_call.participant_number].condition_order = r.condition_order
            /\ participants[helper_call.participant_number].latin_square_row = r.latin_square_row

\* a participant was assigned dose first: row 1, sequence [1, 0]
DoseFirstAssigned ==
    /\ helper_call.op = "assign_condition_order"
    /\ helper_call.result.condition_order = <<"dose", "survey">>
    /\ helper_call.result.latin_square_row = 1
    /\ helper_call.result.condition_sequence = <<1, 0>>

\* get_sequence_number was called for a condition of the participant's order
SequenceNumberAsked ==
    /\ helper_call.op = "get_sequence_number"
    /\ in_list(participants[helper_call.participant].condition_order, helper_call.condition)

\* C26: for a condition contained in a participant's order the helper returns
\* the index (0 or 1) of that condition in the order.
SequenceIndex ==
    SequenceNumberAsked =>
        /\ helper_call.result.raised = "none"
        /\ helper_call.result.value \in {0, 1}
        /\ participants[helper_call.participant].condition_order[helper_call.result.value + 1]
              = helper_call.condition

\* C26 as amended: for a condition contained in a participant's order the
\* helper returns the index of that condition in the order plus one (1 or 2),
\* which the start handler stores as the session's sequence_number.
SequenceNumber ==
    SequenceNumberAsked =>
        /\ helper_call.result.raised = "none"
        /\ helper_call.result.value \in {1, 2}
        /\ participants[helper_call.participant].condition_order[helper_call.result.value]
              = helper_call.condition
        /\ \E i \in DOMAIN participants[helper_call.participant].assessment_sessions :
              /\ participants[helper_call.participant].assessment_sessions[i].session_type
                    = helper_call.condition
              /\ participants[helper_call.participant].assessment_sessions[i].sequence_number
                    = helper_call.result.value

\* the second condition of a participant's order was started first and got
\* sequence number 2
SecondConditionStarted ==
    /\ SequenceNumberAsked
    /\ helper_call.result.value = 2
    /\ Len(participants[helper_call.participant].assessment_sessions) = 1
    /\ participants[helper_call.participant].condition_order[2] = helper_call.condition

\* position of a returned next condition in the order; None counts as the end
NextRank(condition_order, next_condition) ==
    IF next_condition = <<>> THEN Len(condition_order)
    ELSE list_index(condition_order, next_condition[1])

\* C27: get_next_condition returns the first condition of the participant's
\* order that is not in the completed list, never a completed condition, and
\* None exactly when every condition of the order is completed; over the calls
\* made while conditions are completed the returned conditions follow the
\* assigned order.
NextConditionFollowsOrder ==
    [][\A p \in DOMAIN participants' :
          participants'[p].progress # <<>> =>
              LET report == participants'[p].progress[1]
                  order == participants'[p].condition_order
                  done == report.completed_conditions
              IN  /\ report.next_condition = <<>>
                        <=> \A i \in 1..Len(order) : in_list(done, order[i])
                  /\ report.next_condition # <<>> =>
                        /\ in_list(order, report.next_condition[1])
                        /\ ~in_list(done, report.next_condition[1])
                        /\ \A j \in 1..list_index(order, report.next_condition[1]) :
                              in_list(done, order[j])
                  /\ (p \in DOMAIN participants /\ participants[p].progress # <<>>) =>
                        NextRank(order, participants[p].progress[1].next_condition)
                            <= NextRank(order, report.next_condition)]_vars

\* a participant assigned dose first has completed dose and is told that
\* survey is next
SecondConditionNext ==
    \E p \in DOMAIN participants :
        /\ participants[p].condition_order = <<"dose", "survey">>
        /\ participants[p].progress # <<>>
        /\ participants[p].progress[1].completed_conditions = <<"dose">>
        /\ participants[p].progress[1].next_condition = <<"survey">>

-----------------------------------------------------------------------------
(* Numerical invariants of the updater *)

\* C28: after each process_response the responded trait's total Fisher
\* information (total_information) is greater than or equal to its value
\* before that response.
InformationMonotone ==
    [][\A t \in TraitSet :
          Len(state'.trait_states[t].responses) > Len(state.trait_states[t].responses) =>
              state'.trait_states[t].total_information
                  >= state.trait_states[t].total_information]_vars

\* a fourth response left a trait's estimate beyond 0.5 in absolute value,
\* where its items are less informative than at 0, and its total information
\* is that of four items
InformationAccumulated ==
    /\ last_call.op = "process_response"
    /\ last_call.raised = "none"
    /\ LET trait_state == state.trait_states[MINI_IPIP6_ITEMS[last_call.item_number].trait]
       IN  /\ Len(trait_state.items_used) = 4
           /\ (trait_state.theta_estimate > 500000 \/ trait_state.theta_estimate < -500000)
           /\ trait_state.total_information
                 = sum_item_information(trait_state.items_used, trait_state.theta_estimate)
           /\ trait_state.total_information
                 < sum_item_information(trait_state.items_used, 0)

ItemHistoryFields ==
    {"item_number", "trait", "response", "theta_before", "theta_after",
     "se_before", "se_after", "fisher_information", "presentation_order"}

\* the update of the last process_response had a nan log-likelihood among
\* those of the trait's responses: the normalizing constant was nan, not
\* positive
PathologicalUpdate ==
    /\ last_call.op = "process_response"
    /\ \E i \in 1..Len(state.trait_states[MINI_IPIP6_ITEMS[last_call.item_number].trait].responses) :
          state.trait_states[MINI_IPIP6_ITEMS[last_call.item_number].trait].responses[i][1]
              \in irt_nan_items

\* what holds of a pathological update: nothing is raised and the trait's
\* posterior is the prior over the grid (mean 0, sd 0.999464)
PathologyReset ==
    PathologicalUpdate =>
        /\ last_call.raised = "none"
        /\ state.trait_states[MINI_IPIP6_ITEMS[last_call.item_number].trait].posterior_mean
              = GridPrior[1]
        /\ state.trait_states[MINI_IPIP6_ITEMS[last_call.item_number].trait].posterior_sd
              = GridPrior[2]

\* C30: when an update produces a pathological numeric outcome, the affected
\* trait's posterior is reset to the prior, a diagnostic flag is recorded in
\* the administration record of that response, and no error is raised to the
\* caller.
PathologyHandled ==
    PathologicalUpdate =>
        /\ PathologyReset
        /\ Len(state.administered_items) > 0
        /\ LET history == state.administered_items[Len(state.administered_items)]
           IN  /\ history.item_number = last_call.item_number
               /\ \E flag \in DOMAIN history \ ItemHistoryFields : history[flag] = TRUE

\* the next trait of S in cyclic canonical order after trait t
CyclicSuccessor(t, S) ==
    LET later == {u \in S : CanonicalPosition(u) > CanonicalPosition(t)}
        from == IF later = {} THEN S ELSE later
    IN  CHOOSE u \in from : \A v \in from : CanonicalPosition(u) <= CanonicalPosition(v)

\* the trait of the response processed last
TraitJustAdministered ==
    state.administered_items[Len(state.administered_items)].trait

\* get_next_action selected a trait that is not the next incomplete trait in
\* cyclic canonical order after the trait just administered
TraitSkipped ==
    /\ last_call.op = "get_next_action"
    /\ last_action.action = "present_item"
    /\ Len(state.administered_items) > 0
    /\ last_action.trait # CyclicSuccessor(TraitJustAdministered, ActiveTraits)

\* C31: the modulo round-robin (total_items mod number of incomplete traits)
\* can skip traits: a selection that is not the next incomplete trait in
\* cyclic canonical order after the trait just administered occurs
\* (SkipAfterCompletion is reached), and it occurs only right after the
\* trait just administered completed and the incomplete set shrank.
ModuloSkipsAfterShrink ==
    TraitSkipped => state.traits_completed[TraitJustAdministered]

\* right after honesty_humility completed, with the five other traits
\* incomplete, a trait other than extraversion is selected
SkipAfterCompletion ==
    /\ TraitSkipped
    /\ TraitJustAdministered = "honesty_humility"
    /\ state.traits_completed["honesty_humility"]
    /\ Cardinality(ActiveTraits) = 5
    /\ last_action.trait # "extraversion"

\* C32: in the Monte-Carlo simulator the reverse-keying transformation is
\* applied exactly once between model and update: for a reverse-keyed item
\* the raw response recorded is 8 - (trait-direction sample) and the response
\* fed to the posterior update is 8 - raw, the sample itself; for a direct
\* item the sample, the raw response and the update response coincide.
ReverseKeyedOnce ==
    (evaluation.op = "simulate" /\ evaluation.step # <<>>) =>
        LET step == evaluation.step[1]
            sample == evaluation.trait_response
        IN  /\ step.appended = <<evaluation.item_id, step.response>>
            /\ step.scored_response = sample
            /\ evaluation.item_id \in REVERSE_SCORED_ITEMS =>
                  /\ step.response = 8 - sample
                  /\ step.scored_response = 8 - step.response
            /\ evaluation.item_id \notin REVERSE_SCORED_ITEMS =>
                  step.response = sample

\* item 7 ("Don't talk a lot", reverse-keyed) with the sample 6: raw
\* response 2, update response 6
ReverseItemSimulated ==
    /\ evaluation.op = "simulate"
    /\ evaluation.item_id = 7
    /\ evaluation.trait_response = 6
    /\ evaluation.step # <<>>
    /\ evaluation.step[1].response = 2
    /\ evaluation.step[1].scored_response = 6

\* the items listed for trait t in TRAIT_ITEMS
ListedItems(t) == {TRAIT_ITEMS[t][i] : i \in 1..Len(TRAIT_ITEMS[t])}

\* C33: the item bank has exactly 24 items with ids 1..24 and exactly four
\* items per trait (TRAIT_ITEMS partitions 1..24 and agrees with each item's
\* trait field), each item's six beta thresholds are strictly increasing and
\* alpha is positive, and REVERSE_SCORED_ITEMS is exactly the set of items
\* whose reverse_scored flag is true.  The traits are those a session keeps
\* a trait state for.
ItemBank ==
    /\ DOMAIN MINI_IPIP6_ITEMS = 1..24
    /\ Cardinality(DOMAIN MINI_IPIP6_ITEMS) = 24
    /\ DOMAIN TRAIT_ITEMS = DOMAIN state.trait_states
    /\ \A t \in DOMAIN state.trait_states :
          /\ Len(TRAIT_ITEMS[t]) = 4
          /\ Cardinality(ListedItems(t)) = 4
          /\ ListedItems(t) = {n \in DOMAIN MINI_IPIP6_ITEMS : MINI_IPIP6_ITEMS[n].trait = t}
    /\ UNION {ListedItems(t) : t \in TraitSet} = 1..24
    /\ \A t, u \in TraitSet : t # u => ListedItems(t) \cap ListedItems(u) = {}
    /\ \A n \in DOMAIN MINI_IPIP6_ITEMS :
          /\ MINI_IPIP6_ITEMS[n].trait \in TraitSet
          /\ MINI_IPIP6_ITEMS[n].alpha > 0
          /\ Len(MINI_IPIP6_ITEMS[n].beta) = 6
          /\ \A k \in 1..5 : MINI_IPIP6_ITEMS[n].beta[k] < MINI_IPIP6_ITEMS[n].beta[k + 1]
    /\ REVERSE_SCORED_ITEMS =
          {n \in DOMAIN MINI_IPIP6_ITEMS : MINI_IPIP6_ITEMS[n].reverse_scored}

\* the scorer went through the whole bank: answers to the items 1..24 were
\* scored and every trait was scored on four items
WholeBankScored ==
    /\ evaluation.op = "calculate_all_trait_scores"
    /\ evaluation.result # <<>>
    /\ DOMAIN evaluation.responses = DOMAIN MINI_IPIP6_ITEMS
    /\ \A t \in TraitSet : evaluation.result[1].scores[t].num_items = 4
    /\ \E n \in REVERSE_SCORED_ITEMS : evaluation.responses[n] = 1

\* C34: a session driven by get_next_action followed by process_response on
\* the presented item eventually receives the Complete action, after at most
\* 24 responses; get_next_action itself always returns.
Termination ==
    /\ <>SessionOver
    /\ [](state.total_items <= 24)
    /\ [](last_call.op = "get_next_action" =>
             /\ last_action.action \in {"present_item", "complete"}
             /\ state.total_items = 24 => last_action.action = "complete")

\* Complete was received after 24 responses
CompleteAfterAllItems ==
    /\ last_call.op = "get_next_action"
    /\ last_action.action = "complete"
    /\ state.total_items = 24
    /\ Len(state.administered_items) = 24

\* a session in which only trait t has been assessed, its trait state being
\* trait_state
IsolatedSession(t, trait_state) ==
    [initialize_session EXCEPT !.trait_states[t] = trait_state]

RECURSIVE ReplayTrait(_, _)
\* the trait state of t after its own responses alone, in their order
ReplayTrait(t, responses) ==
    IF responses = <<>> THEN TraitState(t)
    ELSE update_trait_state(
             ReplayTrait(t, SubSeq(responses, 1, Len(responses) - 1)),
             responses[Len(responses)][1],
             responses[Len(responses)][2]).trait_state

\* trait t of the state st is as after its own responses alone
AgreesWithAlone(st, t, alone_state) ==
    /\ st.trait_states[t] = alone_state
    /\ st.traits_completed[t] = stopping_criterion(alone_state)

\* C35: per-trait noninterference: the sequence of items administered for a
\* trait T, and T's theta estimate, SE and completion, depend only on the
\* responses given to T's own items.  They are functions of these responses:
\* on every step the item presented for T, and T's trait state and completed
\* flag after a response, are those obtained from T's responses alone, in a
\* session in which no other trait was answered; so two sessions with the
\* same responses on T's items agree on them whatever the other responses.
TraitNoninterference ==
    [][/\ (last_call'.op = "get_next_action" /\ last_action'.action = "present_item") =>
              last_action'.item_number =
                  select_next_item(
                      IsolatedSession(
                          last_action'.trait,
                          ReplayTrait(last_action'.trait,
                                      state'.trait_states[last_action'.trait].responses)),
                      last_action'.trait)
       /\ (last_call'.op = "process_response" /\ last_call'.raised = "none") =>
              AgreesWithAlone(
                  state',
                  MINI_IPIP6_ITEMS[last_call'.item_number].trait,
                  ReplayTrait(
                      MINI_IPIP6_ITEMS[last_call'.item_number].trait,
                      state'.trait_states[
                          MINI_IPIP6_ITEMS[last_call'.item_number].trait].responses))]_vars

\* a trait received its third response after another trait was answered 1 and
\* a further one 7, and a trait had completed in between
ThirdResponseAmongOthers ==
    /\ last_call.op = "process_response"
    /\ last_call.raised = "none"
    /\ LET t == MINI_IPIP6_ITEMS[last_call.item_number].trait
       IN  /\ Len(state.trait_states[t].responses) = 3
           /\ \A k \in 1..3 : state.trait_states[t].responses[k][2] = Neutral
           /\ \E i, j \in 1..Len(state.administered_items) :
                 /\ state.administered_items[i].trait # t
                 /\ state.administered_items[j].trait # t
                 /\ state.administered_items[i].response = 1
                 /\ state.administered_items[j].response = 7
           /\ \E u \in TraitSet \ {t} : state.traits_completed[u]

\* C36: process_response for an item of trait T leaves unchanged the trait
\* states (responses, items_used, theta estimate, SE, total_information) and
\* the completed flags of all traits other than T, whether it returns or
\* raises.
ProcessResponseFrame ==
    [][(last_call'.op = "process_response"
        /\ last_call'.item_number \in DOMAIN MINI_IPIP6_ITEMS) =>
          \A u \in TraitSet \ {MINI_IPIP6_ITEMS[last_call'.item_number].trait} :
              /\ state'.trait_states[u] = state.trait_states[u]
              /\ state'.traits_completed[u] = state.traits_completed[u]]_vars

\* a response to an item of a trait was processed and completed that trait
\* while another trait, answered before, was and stayed incomplete with an
\* estimate away from 0
OtherTraitUntouched ==
    /\ last_call.op = "process_response"
    /\ last_call.raised = "none"
    /\ state.traits_completed[MINI_IPIP6_ITEMS[last_call.item_number].trait]
    /\ \E u \in TraitSet \ {MINI_IPIP6_ITEMS[last_call.item_number].trait} :
          /\ ~state.traits_completed[u]
          /\ Len(state.trait_states[u].responses) > 0
          /\ state.trait_states[u].theta_estimate # 0

\* C37: under the controller protocol a trait is marked Completed only after
\* at least one of its items has been administered, so when the session is
\* Complete every trait has between 1 and 4 items in items_used and
\* total_items is at least 6.
CompletedAfterAnItem ==
    /\ \A t \in TraitSet :
          state.traits_completed[t] => Len(state.trait_states[t].items_used) >= 1
    /\ SessionOver =>
          /\ \A t \in TraitSet : Len(state.trait_states[t].items_used) \in 1..4
          /\ state.total_items >= 6

\* with the threshold 10.0 the session is Complete after six responses, one
\* to an item of each trait
CompleteAfterSix ==
    /\ SessionOver
    /\ state.total_items = 6
    /\ \A t \in TraitSet : Len(state.trait_states[t].items_used) = 1

\* C38: in every state reachable under the controller protocol with
\* MAX_ITEMS_PER_TRAIT = 4, every trait that is not Completed has fewer than
\* 4 items used, so the selected trait always has an unadministered item and
\* get_next_action's "no items left, mark completed and recurse" branch is
\* never taken.
ItemsLeftForSelected ==
    max_items_per_trait = 4 =>
        /\ \A t \in TraitSet :
              ~state.traits_completed[t] => Len(state.trait_states[t].items_used) < 4
        /\ ~all_completed(state) =>
              available_items(state.trait_states[next_trait_of(state)],
                              next_trait_of(state)) # <<>>
        /\ last_call.op = "get_next_action" =>
              get_next_action(state).state = state

\* a trait has three items used, is not Completed and is the one selected:
\* its fourth item is presented
FourthItemOfTrait ==
    /\ last_call.op = "get_next_action"
    /\ last_action.action = "present_item"
    /\ ~state.traits_completed[last_action.trait]
    /\ Len(state.trait_states[last_action.trait].items_used) = 3
    /\ Len(available_items(state.trait_states[last_action.trait], last_action.trait)) = 1

\* C39: the stopping parameters in effect are those passed to the
\* DOSEAlgorithm constructor for every passed value, including
\* se_threshold = 0.0; the defaults (SE threshold 0.65, 4 items per trait)
\* are used only when no value is passed.
PassedParametersInEffect ==
    /\ se_threshold = IF init_args.se_threshold = None
                      THEN DOSE_SE_THRESHOLD
                      ELSE init_args.se_threshold
    /\ max_items_per_trait = IF init_args.max_items_per_trait = None
                             THEN DOSE_MAX_ITEMS_PER_TRAIT
                             ELSE init_args.max_items_per_trait

\* a session that is COMPLETED stays COMPLETED and its row is not changed by
\* any request: it accepts no further responses
CompletedIsFinal ==
    [][\A p \in DOMAIN participants :
          \A i \in DOMAIN participants[p].assessment_sessions :
              participants[p].assessment_sessions[i].status = "completed" =>
                  participants'[p].assessment_sessions[i]
                      = participants[p].assessment_sessions[i]]_vars

\* C40: for each participant and each session type (survey, dose), at most
\* one session ever reaches status COMPLETED, under any interleaving of start
\* and respond/submit requests; a session that is COMPLETED never returns to
\* IN_PROGRESS and accepts no further responses.
OneCompletedSession ==
    /\ [](\A p \in DOMAIN participants :
             \A session_type \in SessionTypes :
                 Cardinality(completed_sessions(p, session_type)) <= 1)
    /\ CompletedIsFinal
====
